---- MODULE Spec2Model ----
(***************************************************************************)
(* KKBOX churn pipeline: the 30-day churn labelers (src/src/labels.py,     *)
(* src/src/backtest.py), the label command with its accuracy gate          *)
(* (src/src/labels.py main) and the cohort feature table                   *)
(* (src/src/make_dataset.py).                                              *)
(*                                                                         *)
(* Tables are sets of rows.  A DATE is the number of days since 1970-01-01,*)
(* a raw CSV date is the integer YYYYMMDD, SQL NULL is the value NULL.     *)
(***************************************************************************)
EXTENDS Integers, FiniteSets, Sequences, TLC

VARIABLES
    transactions,   \* rows of the transactions CSV
    user_logs,      \* rows of the user_logs CSV
    train,          \* rows (msno, is_churn) of the official labels CSV
    pc,             \* position of the running command
    cutoff_date,    \* --cutoff-date of the last create_churn_labels call
    labels_df,      \* rows returned by create_churn_labels
    expire_month,   \* expire_month of the last labels_for_expire_month call
    bt_labels,      \* rows (msno, is_churn) returned by labels_for_expire_month
    min_accuracy,   \* --min-accuracy, in percent
    validation,     \* outcome of validate_labels
    audit_df,       \* result of mismatch_audit (sequence of records)
    labels_file,    \* the file args.output
    audit_file,     \* the file <output>_mismatches.csv
    exit_code,      \* exit status of the label command, NULL while running
    joined,         \* rows of the make_dataset.py table "joined"
    windows,        \* backtest: --windows, a sequence of <<cutoff_ym, expire_ym>>
    win_i,          \* backtest: position of the loop over the windows
    models_present, \* backtest: names of the model files that exist
    feats,          \* backtest: feature table of the current window
    out_rows,       \* backtest: the metric rows collected so far
    files,          \* backtest: the files under eval/, by path
    out_file,       \* backtest: the file args.out
    model_i,        \* backtest: position of the loop over the models
    psi_a,          \* psi: the sample compared (a sequence of numbers)
    psi_e,          \* psi: the reference sample
    psi_val,        \* psi: the value returned, NULL before the call
    psi_windows,    \* psi.py: the windows of the feature files read (a set of pairs)
    psi_ref,        \* psi.py: --ref, the text of a window, "" when not given
    score_files,    \* psi_scores.py: the score files under eval/, as <<pair, model>>
    psi_rows,       \* psi.py: the rows of the feature PSI report
    score_rows,     \* psi_scores.py: the rows of the score PSI report
    cv_times,       \* temporal_cv: the time column of the frame, by row
    cv_months,      \* temporal_cv: ChurnTemporalCV.months (sorted)
    cv_expanding,   \* temporal_cv: ChurnTemporalCV.expanding
    cv_folds,       \* temporal_cv: the folds yielded by ChurnTemporalCV.split
    fold_details,   \* temporal_cv: fold_details of temporal_cross_val_score
    ts_params,      \* temporal_cv: train_end, val_end, gap_days of TemporalSplit
    ts_result,      \* temporal_cv: <<train_idx, val_idx>> of TemporalSplit.split
    eval_feats,     \* evaluate_window: the frame feats (columns and rows)
    eval_y,         \* evaluate_window: the target y, as rows (msno, y)
    eval_x_cols,    \* evaluate_window: the columns of the model input X
    pl_args,        \* run_full_pipeline: the --skip-* options
    pl_env,         \* run_full_pipeline: which files exist
    completed_steps,\* run_full_pipeline: completed_steps
    pl_log,         \* run_full_pipeline: the calls of run_command, in order
    pl_exit         \* run_full_pipeline: exit status, NULL while running

vars == <<transactions, user_logs, train, pc, cutoff_date, labels_df,
          expire_month, bt_labels, min_accuracy, validation, audit_df,
          labels_file, audit_file, exit_code, joined, windows, win_i,
          models_present, feats, out_rows, files, out_file, model_i,
          psi_a, psi_e, psi_val, psi_windows, psi_ref, score_files, psi_rows,
          score_rows, cv_times, cv_months, cv_expanding, cv_folds,
          fold_details, ts_params, ts_result, eval_feats, eval_y,
          eval_x_cols, pl_args, pl_env, completed_steps, pl_log, pl_exit>>

\* The state of the label, feature and backtest commands.
command_vars ==
    <<transactions, user_logs, train, cutoff_date, labels_df, expire_month,
      bt_labels, min_accuracy, validation, audit_df, labels_file, audit_file,
      exit_code, joined, windows, win_i, models_present, feats, out_rows,
      files, out_file, model_i>>

\* The arguments and the result of a PSI function.
sample_vars == <<psi_a, psi_e, psi_val>>

\* The inputs and the reports of the drift commands.
report_vars == <<psi_windows, psi_ref, score_files, psi_rows, score_rows>>

\* The arguments and the results of the temporal splitters.
cv_vars == <<cv_times, cv_months, cv_expanding, cv_folds, fold_details,
             ts_params, ts_result>>

\* The frame, the target and the input columns of evaluate_window.
eval_vars == <<eval_feats, eval_y, eval_x_cols>>

\* The state of run_full_pipeline.
pipeline_vars == <<pl_args, pl_env, completed_steps, pl_log, pl_exit>>

\* The state of the drift, split and pipeline commands.
tool_vars == <<sample_vars, report_vars, cv_vars, eval_vars, pipeline_vars>>

\* SQL NULL / Python None / a file that does not exist.
NULL == -1

\* A NULL msno (an empty key field of a CSV row).
NullMsno == ""

\* No month yet.
NoMonth == <<0, 0>>

(***************************************************************************)
(* Bounds of the model.                                                    *)
(***************************************************************************)
\* Largest number of rows in the transactions CSV.
MaxTx == 2

\* The msno values, in their sort order.
UserOrder == <<"u1", "u2">>
Users == { UserOrder[i] : i \in 1..Len(UserOrder) }

(***************************************************************************)
(* Calendar: what DuckDB's DATE type and Python's datetime.date compute.   *)
(***************************************************************************)
IsLeap(y) == (y % 4 = 0 /\ y % 100 # 0) \/ y % 400 = 0

DaysInMonth(y, m) ==
    IF m = 2 THEN (IF IsLeap(y) THEN 29 ELSE 28)
    ELSE IF m \in {4, 6, 9, 11} THEN 30 ELSE 31

\* date(y, m, d) as days since 1970-01-01 (proleptic Gregorian calendar).
MkDate(y, m, d) ==
    LET yy  == IF m <= 2 THEN y - 1 ELSE y
        era == yy \div 400
        yoe == yy - era * 400
        mp  == (m + 9) % 12
        doy == (153 * mp + 2) \div 5 + d - 1
        doe == yoe * 365 + yoe \div 4 - yoe \div 100 + doy
    IN  era * 146097 + doe - 719468

\* STRPTIME(CAST(n AS VARCHAR), '%Y%m%d') for the integer n = YYYYMMDD, cast to
\* DATE; NULL for a NULL input.  This is the value for an n that is a calendar
\* date; on any other n STRPTIME raises (strptime_raises below).
StrpTime(n) ==
    IF n = NULL THEN NULL
    ELSE MkDate(n \div 10000, (n \div 100) % 100, n % 100)

\* DATE_DIFF('day', a, b)
DateDiff(a, b) == b - a

SetMax(S) == CHOOSE x \in S : \A y \in S : y <= x
SetMin(S) == CHOOSE x \in S : \A y \in S : x <= y

(***************************************************************************)
(* Input universes.                                                        *)
(***************************************************************************)
\* Raw transaction_date values: an early purchase, then the days 0, 1, 30 and
\* 31 after the expiration of 2017-02-15.
TxnDates == {20170101, 20170215, 20170216, 20170317, 20170318}

\* Raw membership_expire_date values: two expirations in February and one in
\* April, after every cutoff.
ExpireDates == {20170215, 20170228, 20170415}

\* Rows the transactions CSV of the labelers is drawn from.
TxRows ==
    [msno : Users, transaction_date : TxnDates,
     membership_expire_date : ExpireDates, is_cancel : {0, 1}]

\* --cutoff-date values, as dates.
Cutoffs == {MkDate(2017, 3, 1), MkDate(2017, 4, 1)}

\* expire_month values, as <<year, month>>.
Months == {<<2017, 2>>, <<2017, 4>>}

\* --window-days / window_days default.
WindowDays == 30

(***************************************************************************)
(* src/src/labels.py: create_churn_labels                                  *)
(***************************************************************************)
\* CTE tx_parsed: typed rows; rows with a NULL key or date are left out.
tx_parsed(tx) ==
    { [msno |-> r.msno,
       transaction_date |-> StrpTime(r.transaction_date),
       membership_expire_date |-> StrpTime(r.membership_expire_date),
       is_cancel |-> r.is_cancel] :
      r \in { q \in tx : /\ q.msno # NullMsno
                         /\ q.transaction_date # NULL
                         /\ q.membership_expire_date # NULL
                         /\ StrpTime(q.transaction_date) # NULL
                         /\ StrpTime(q.membership_expire_date) # NULL } }

\* CTE tx_sorted: WHERE transaction_date <= DATE cutoff - INTERVAL '1 day'.
tx_sorted(tx, cutoff) ==
    { r \in tx_parsed(tx) : r.transaction_date <= cutoff - 1 }

\* user_last_expire taking the earliest expiration (MIN for MAX).
user_last_expire_min(tx, cutoff) ==
    LET S == { r \in tx_sorted(tx, cutoff) : r.membership_expire_date < cutoff }
    IN  { [msno |-> u,
           last_expire_date |->
              SetMin({ r.membership_expire_date : r \in { q \in S : q.msno = u } })] :
          u \in { r.msno : r \in S } }

\* CTE user_last_expire: GROUP BY msno, MAX(membership_expire_date) over the
\* rows of tx_sorted that expire before the cutoff.
user_last_expire(tx, cutoff) ==
    LET S == { r \in tx_sorted(tx, cutoff) : r.membership_expire_date < cutoff }
    IN  { [msno |-> u,
           last_expire_date |->
              SetMax({ r.membership_expire_date : r \in { q \in S : q.msno = u } })] :
          u \in { r.msno : r \in S } }

\* extension_rows without the condition t2.is_cancel = 0.
extension_rows_any_cancel(tx, cutoff, ule) ==
    { t2 \in tx_sorted(tx, cutoff) :
        /\ t2.msno = ule.msno
        /\ t2.transaction_date > ule.last_expire_date
        /\ t2.membership_expire_date > ule.last_expire_date }

\* The rows t2 the LEFT JOIN of next_extensions keeps for one row of
\* user_last_expire.
extension_rows(tx, cutoff, ule) ==
    { t2 \in tx_sorted(tx, cutoff) :
        /\ t2.msno = ule.msno
        /\ t2.transaction_date > ule.last_expire_date
        /\ t2.is_cancel = 0
        /\ t2.membership_expire_date > ule.last_expire_date }

\* CTE next_extensions: one row per group (msno, last_expire_date) of the
\* join; the INNER JOIN with t1 keeps the users that have a row expiring on
\* last_expire_date; the MINs are NULL when the LEFT JOIN matched no row.
next_extensions(tx, cutoff) ==
    { [msno |-> ule.msno,
       last_expire_date |-> ule.last_expire_date,
       next_txn_date |->
          IF extension_rows(tx, cutoff, ule) = {} THEN NULL
          ELSE SetMin({ t.transaction_date : t \in extension_rows(tx, cutoff, ule) }),
       next_expire_date |->
          IF extension_rows(tx, cutoff, ule) = {} THEN NULL
          ELSE SetMin({ t.membership_expire_date :
                        t \in extension_rows(tx, cutoff, ule) })] :
      ule \in { g \in user_last_expire(tx, cutoff) :
                  \E t1 \in tx_sorted(tx, cutoff) :
                      /\ t1.msno = g.msno
                      /\ t1.membership_expire_date = g.last_expire_date } }

\* churn_case without its last branch: any renewal found means no churn.
churn_case_any_renewal(last_expire_date, next_txn_date, window_days) ==
    IF next_txn_date = NULL THEN 1 ELSE 0

\* The CASE of churn_labels that yields is_churn.
churn_case(last_expire_date, next_txn_date, window_days) ==
    IF next_txn_date = NULL THEN 1
    ELSE IF DateDiff(last_expire_date, next_txn_date) <= window_days THEN 0
    ELSE 1

\* CTE churn_labels.
churn_labels(tx, cutoff, window_days) ==
    { [msno |-> ne.msno,
       last_expire_date |-> ne.last_expire_date,
       next_txn_date |-> ne.next_txn_date,
       days_to_next |->
          IF ne.next_txn_date = NULL THEN NULL
          ELSE DateDiff(ne.last_expire_date, ne.next_txn_date),
       is_churn |-> churn_case(ne.last_expire_date, ne.next_txn_date,
                               window_days)] :
      ne \in next_extensions(tx, cutoff) }

\* The final SELECT: churn_labels LEFT JOIN official_labels, restricted to
\* the users of the official labels.
create_churn_labels(tx, official, cutoff, window_days) ==
    { [msno |-> j[1].msno,
       is_churn |-> j[1].is_churn,
       last_expire_date |-> j[1].last_expire_date,
       next_txn_date |-> j[1].next_txn_date,
       days_to_next |-> j[1].days_to_next,
       official_is_churn |-> j[2].is_churn] :
      j \in { p \in churn_labels(tx, cutoff, window_days) \X official :
                p[1].msno = p[2].msno } }

(***************************************************************************)
(* src/src/backtest.py: month_bounds, labels_for_expire_month              *)
(***************************************************************************)
\* month_bounds with every month taken to be 31 days long.
month_bounds_fixed_length(ym) ==
    <<MkDate(ym[1], ym[2], 1), MkDate(ym[1], ym[2], 1) + 30>>

\* month_bounds: <<first day, last day>> of the month ym = <<y, m>>.
month_bounds(ym) ==
    LET y == ym[1]
        m == ym[2]
        first == MkDate(y, m, 1)
        last  == IF m = 12 THEN MkDate(y + 1, 1, 1) - 1
                 ELSE MkDate(y, m + 1, 1) - 1
    IN  <<first, last>>

\* CTE tx of labels_for_expire_month.
bt_tx(tx) ==
    { [msno |-> r.msno,
       txn_dt |-> StrpTime(r.transaction_date),
       exp_dt |-> StrpTime(r.membership_expire_date),
       is_cancel |-> r.is_cancel] :
      r \in { q \in tx : /\ q.msno # NullMsno
                         /\ q.transaction_date # NULL
                         /\ q.membership_expire_date # NULL } }

\* last_exp without the WHERE exp_dt BETWEEN first AND last.
last_exp_any_month(tx, ym) ==
    LET S == { r \in bt_tx(tx) : r.exp_dt # NULL }
    IN  { [msno |-> u,
           last_exp_dt |-> SetMax({ r.exp_dt : r \in { q \in S : q.msno = u } })] :
          u \in { r.msno : r \in S } }

\* CTE last_exp: GROUP BY msno, MAX(exp_dt) over the rows expiring in
\* [first, last].
last_exp(tx, ym) ==
    LET first == month_bounds(ym)[1]
        last  == month_bounds(ym)[2]
        S == { r \in bt_tx(tx) :
                 r.exp_dt # NULL /\ first <= r.exp_dt /\ r.exp_dt <= last }
    IN  { [msno |-> u,
           last_exp_dt |-> SetMax({ r.exp_dt : r \in { q \in S : q.msno = u } })] :
          u \in { r.msno : r \in S } }

\* The rows t2 the LEFT JOIN of next_tx keeps for one row of last_exp.
next_tx_rows(tx, le) ==
    { t2 \in bt_tx(tx) :
        /\ t2.msno = le.msno
        /\ t2.txn_dt # NULL /\ t2.txn_dt > le.last_exp_dt
        /\ t2.is_cancel = 0
        /\ t2.exp_dt # NULL /\ t2.exp_dt > le.last_exp_dt }

\* CTE next_tx: one row per group (msno, last_exp_dt).
next_tx(tx, ym) ==
    { [msno |-> le.msno,
       last_exp_dt |-> le.last_exp_dt,
       next_txn_dt |-> IF next_tx_rows(tx, le) = {} THEN NULL
                       ELSE SetMin({ t.txn_dt : t \in next_tx_rows(tx, le) })] :
      le \in last_exp(tx, ym) }

\* labels_for_expire_month: the rows (msno, is_churn) of the final SELECT.
labels_for_expire_month(tx, ym, window_days) ==
    { [msno |-> n.msno,
       is_churn |->
          IF n.next_txn_dt = NULL THEN 1
          ELSE IF DateDiff(n.last_exp_dt, n.next_txn_dt) <= window_days THEN 0
          ELSE 1] :
      n \in next_tx(tx, ym) }

(***************************************************************************)
(* src/src/labels.py: validate_labels, mismatch_audit                      *)
(***************************************************************************)
\* comparable without the dropna on official_is_churn.
comparable_generated_only(df) ==
    { x \in df : x.is_churn # NULL }

\* labels_df.dropna(subset=["is_churn", "official_is_churn"])
comparable(df) ==
    { x \in df : x.is_churn # NULL /\ x.official_is_churn # NULL }

\* (comparable["is_churn"] == comparable["official_is_churn"]).sum()
matches(df) ==
    Cardinality({ x \in comparable(df) : x.is_churn = x.official_is_churn })

\* accuracy <= min_accuracy in place of accuracy < min_accuracy.
accuracy_below_or_equal(m, t, pct) == m * 100 <= pct * t

\* accuracy < min_accuracy for accuracy = m / t and min_accuracy = pct / 100.
\* (The quotient m / t and the parsed pct / 100 are both correctly rounded
\* doubles, so for the table sizes here the float comparison is the
\* comparison of the two rationals.)
accuracy_below(m, t, pct) == m * 100 < pct * t

\* validate_labels: what it raises or returns.
validate_labels(df, pct) ==
    IF Cardinality(comparable(df)) = 0
    THEN [outcome |-> "no_comparable", matches |-> 0, total |-> 0]
    ELSE IF accuracy_below(matches(df), Cardinality(comparable(df)), pct)
    THEN [outcome |-> "below_min_accuracy",
          matches |-> matches(df), total |-> Cardinality(comparable(df))]
    ELSE [outcome |-> "returned",
          matches |-> matches(df), total |-> Cardinality(comparable(df))]

NotValidated == [outcome |-> "none", matches |-> 0, total |-> 0]

\* Order of the msno strings (labels_df comes ORDER BY cl.msno).
MsnoRank(u) == CHOOSE i \in 1..Len(UserOrder) : UserOrder[i] = u

\* The lambda of mismatch_audit with the comparison turned around.
mismatch_type_swapped(generated_label, official_label) ==
    IF generated_label > official_label THEN "false_negative"
    ELSE "false_positive"

\* The lambda of mismatch_audit.
mismatch_type(generated_label, official_label) ==
    IF generated_label < official_label THEN "false_negative"
    ELSE "false_positive"

\* One row of audit_df.
audit_row(x) ==
    [msno |-> x.msno,
     last_expire_date |-> x.last_expire_date,
     next_txn_date |-> x.next_txn_date,
     days_to_next |-> x.days_to_next,
     generated_label |-> x.is_churn,
     official_label |-> x.official_is_churn,
     mismatch_type |-> mismatch_type(x.is_churn, x.official_is_churn)]

\* sort_values(["mismatch_type", "days_to_next"], ascending=[True, True]):
\* "false_negative" sorts before "false_positive", a missing days_to_next
\* goes last, and the sort is stable (ties keep the msno order).
audit_before(a, b) ==
    IF a.mismatch_type # b.mismatch_type
    THEN a.mismatch_type = "false_negative"
    ELSE IF a.days_to_next # b.days_to_next
    THEN /\ a.days_to_next # NULL
         /\ (b.days_to_next = NULL \/ a.days_to_next < b.days_to_next)
    ELSE MsnoRank(a.msno) < MsnoRank(b.msno)

RECURSIVE sort_values(_)
sort_values(S) ==
    IF S = {} THEN << >>
    ELSE LET first == CHOOSE a \in S : \A b \in S \ {a} : audit_before(a, b)
         IN  <<first>> \o sort_values(S \ {first})

\* mismatch_audit: the returned frame (empty when nothing differs).
mismatch_audit(df) ==
    sort_values({ audit_row(x) :
                  x \in { y \in comparable(df) :
                            y.is_churn # y.official_is_churn } })

\* labels_df[["msno", "is_churn", "last_expire_date", "next_txn_date"]]
output_cols(df) ==
    { [msno |-> x.msno, is_churn |-> x.is_churn,
       last_expire_date |-> x.last_expire_date,
       next_txn_date |-> x.next_txn_date] : x \in df }

\* A file that has not been written.
NoFile == [exists |-> FALSE, rows |-> {}]
NoAudit == [exists |-> FALSE, rows |-> << >>]

\* The directory eval/ before anything is written.
NoFiles == [p \in {} |-> NoFile]

(***************************************************************************)
(* src/src/make_dataset.py: the table "joined"                             *)
(***************************************************************************)
\* Bounds of the cohort: label dates lie in [2017-03-01, 2017-05-01).
CohortFirst == MkDate(2017, 3, 1)
CohortEnd == MkDate(2017, 5, 1)

\* INTERVAL 30 DAY of logs_30.
LogWindowDays == 30

\* CTE tx_norm: one row per row of the CSV; the field row keeps apart the rows
\* that agree on every selected column, as the SQL bag does.
tx_norm(tx) ==
    { [row |-> r,
       msno |-> r.msno,
       expire_date |-> StrpTime(r.membership_expire_date),
       payment_plan_days |-> r.payment_plan_days,
       is_auto_renew |-> r.is_auto_renew,
       is_cancel |-> r.is_cancel] : r \in tx }

\* CTE last_exp of make_dataset: GROUP BY msno, label_date = MAX(expire_date)
\* FILTER (expire_date in the cohort), NULL when no row passes the filter.
label_dates(tx) ==
    { [msno |-> u,
       label_date |->
          LET S == { r.expire_date :
                     r \in { q \in tx_norm(tx) :
                               /\ q.msno = u
                               /\ q.expire_date >= CohortFirst
                               /\ q.expire_date < CohortEnd } }
          IN  IF S = {} THEN NULL ELSE SetMax(S)] :
      u \in { r.msno : r \in tx_norm(tx) } }

\* The rows of tx_norm that tx_agg aggregates for one row e of last_exp:
\* JOIN last_exp e USING (msno) WHERE t.expire_date < e.label_date.
tx_agg_rows(tx, e) ==
    { t \in tx_norm(tx) :
        /\ t.msno = e.msno
        /\ e.label_date # NULL
        /\ t.expire_date < e.label_date }

\* CTE tx_agg: one row per msno that has a row to aggregate.
tx_agg(tx, E) ==
    { [msno |-> e.msno,
       plan_days_latest |->
          SetMax({ t.payment_plan_days : t \in tx_agg_rows(tx, e) }),
       auto_renew_latest |->
          SetMax({ t.is_auto_renew : t \in tx_agg_rows(tx, e) }),
       cancels_total |->
          Cardinality({ t \in tx_agg_rows(tx, e) : t.is_cancel = 1 }),
       tx_count_total |-> Cardinality(tx_agg_rows(tx, e))] :
      e \in { g \in E : tx_agg_rows(tx, g) # {} } }

\* CTE logs_norm.
logs_norm(logs) ==
    { [msno |-> l.msno,
       log_date |-> StrpTime(l.date),
       num_unq |-> l.num_unq,
       total_secs |-> l.total_secs] : l \in logs }

\* logs_30 rows with the day of the label date let in (log_date <= label_date).
logs_30_rows_closed(logs, e) ==
    { l \in logs_norm(logs) :
        /\ l.msno = e.msno
        /\ e.label_date # NULL
        /\ l.log_date >= e.label_date - LogWindowDays
        /\ l.log_date <= e.label_date }

\* The rows of logs_norm that logs_30 aggregates for one row e of last_exp:
\* log_date >= e.label_date - INTERVAL 30 DAY AND log_date < e.label_date.
logs_30_rows(logs, e) ==
    { l \in logs_norm(logs) :
        /\ l.msno = e.msno
        /\ e.label_date # NULL
        /\ l.log_date >= e.label_date - LogWindowDays
        /\ l.log_date < e.label_date }

RECURSIVE SumOf(_, _)
\* SUM(COALESCE(column, 0)) over a set of rows.
SumOf(rows, col) ==
    IF rows = {} THEN 0
    ELSE LET r == CHOOSE x \in rows : TRUE
         IN  (IF r[col] = NULL THEN 0 ELSE r[col]) + SumOf(rows \ {r}, col)

\* CTE logs_30: one row per msno that has a log in the window.
logs_30(logs, E) ==
    { [msno |-> e.msno,
       logs_30d |-> Cardinality(logs_30_rows(logs, e)),
       secs_30d |-> SumOf(logs_30_rows(logs, e), "total_secs"),
       unq_30d |-> SumOf(logs_30_rows(logs, e), "num_unq")] :
      e \in { g \in E : logs_30_rows(logs, g) # {} } }

\* The one row of table T for msno u, or the default row when the LEFT JOIN
\* matches nothing.
LeftJoin(T, u, default) ==
    IF \E t \in T : t.msno = u THEN CHOOSE t \in T : t.msno = u ELSE default

\* The final SELECT for the label dates E: a row per train row whose msno has
\* a label_date; counts of logs_30 are COALESCEd to 0, those of tx_agg are not.
joined_rows(tx, logs, official, E) ==
    { [msno |-> j[1].msno,
       is_churn |-> j[1].is_churn,
       label_date |-> j[2].label_date,
       plan_days_latest |->
          LeftJoin(tx_agg(tx, E), j[1].msno,
                   [plan_days_latest |-> NULL]).plan_days_latest,
       auto_renew_latest |->
          LeftJoin(tx_agg(tx, E), j[1].msno,
                   [auto_renew_latest |-> NULL]).auto_renew_latest,
       cancels_total |->
          LeftJoin(tx_agg(tx, E), j[1].msno,
                   [cancels_total |-> NULL]).cancels_total,
       tx_count_total |->
          LeftJoin(tx_agg(tx, E), j[1].msno,
                   [tx_count_total |-> NULL]).tx_count_total,
       logs_30d |->
          LeftJoin(logs_30(logs, E), j[1].msno, [logs_30d |-> 0]).logs_30d,
       secs_30d |->
          LeftJoin(logs_30(logs, E), j[1].msno, [secs_30d |-> 0]).secs_30d,
       unq_30d |->
          LeftJoin(logs_30(logs, E), j[1].msno, [unq_30d |-> 0]).unq_30d] :
      j \in { p \in official \X E :
                p[1].msno = p[2].msno /\ p[2].label_date # NULL } }

\* CREATE OR REPLACE TABLE joined AS ...
make_joined(tx, logs, official) ==
    joined_rows(tx, logs, official, label_dates(tx))

(***************************************************************************)
(* State machine.                                                          *)
(***************************************************************************)
NoTable == {}

\* No PSI function has been called.
SamplesIdle ==
    /\ psi_a = << >>
    /\ psi_e = << >>
    /\ psi_val = NULL

\* No drift command has run.
ReportsIdle ==
    /\ psi_windows = {}
    /\ psi_ref = ""
    /\ score_files = {}
    /\ psi_rows = {}
    /\ score_rows = {}

\* No TemporalSplit parameters.
NoSplit == [train_end |-> NULL, val_end |-> NULL, gap_days |-> 0]

\* No temporal splitter has run.
SplittersIdle ==
    /\ cv_times = << >>
    /\ cv_months = << >>
    /\ cv_expanding = TRUE
    /\ cv_folds = << >>
    /\ fold_details = << >>
    /\ ts_params = NoSplit
    /\ ts_result = <<{}, {}>>

\* A frame with no column and no row.
NoFrame == [cols |-> {}, rows |-> {}]

\* evaluate_window has not been called on a frame.
EvaluateIdle ==
    /\ eval_feats = NoFrame
    /\ eval_y = {}
    /\ eval_x_cols = {}

\* No options and no files of the pipeline yet.
NoArgs == [skip_features |-> FALSE, skip_tuning |-> FALSE,
           skip_stacking |-> FALSE]

NoEnv == [prerequisites |-> FALSE, feature_files |-> FALSE,
          best_hyperparameters |-> FALSE]

\* run_full_pipeline has not run.
PipelineIdle ==
    /\ pl_args = NoArgs
    /\ pl_env = NoEnv
    /\ completed_steps = << >>
    /\ pl_log = << >>
    /\ pl_exit = NULL

\* The drift, split and pipeline commands have not run.
ToolsIdle ==
    /\ SamplesIdle
    /\ ReportsIdle
    /\ SplittersIdle
    /\ EvaluateIdle
    /\ PipelineIdle

\* Official labels that list every user once.
AllTrain == { [msno |-> u, is_churn |-> 0] : u \in Users }

Init ==
    /\ transactions = {}
    /\ user_logs = {}
    /\ train = AllTrain
    /\ pc = "load"
    /\ cutoff_date = NULL
    /\ labels_df = NoTable
    /\ expire_month = NoMonth
    /\ bt_labels = NoTable
    /\ min_accuracy = NULL
    /\ validation = NotValidated
    /\ audit_df = << >>
    /\ labels_file = NoFile
    /\ audit_file = NoAudit
    /\ exit_code = NULL
    /\ joined = NoTable
    /\ windows = << >>
    /\ win_i = 0
    /\ models_present = {}
    /\ feats = NoTable
    /\ out_rows = << >>
    /\ files = NoFiles
    /\ out_file = NoAudit
    /\ model_i = 0
    /\ ToolsIdle

\* One more row in the transactions CSV, before any command reads it.
AppendTransaction(r) ==
    /\ pc = "load"
    /\ Cardinality(transactions) < MaxTx
    /\ r \notin transactions
    /\ transactions' = transactions \cup {r}
    /\ UNCHANGED <<user_logs, train, pc, cutoff_date, labels_df, expire_month,
                   bt_labels, min_accuracy, validation, audit_df, labels_file,
                   audit_file, exit_code, joined,
                   windows, win_i, models_present, feats,
                   out_rows, files, out_file, model_i,
                   tool_vars>>

\* A call create_churn_labels(transactions, train, cutoff_date = c, 30).
CreateChurnLabels(c) ==
    /\ pc = "load"
    /\ cutoff_date' = c
    /\ labels_df' = create_churn_labels(transactions, train, c, WindowDays)
    /\ pc' = "created"
    /\ UNCHANGED <<transactions, user_logs, train, expire_month, bt_labels,
                   min_accuracy, validation, audit_df, labels_file, audit_file,
                   exit_code, joined,
                   windows, win_i, models_present, feats,
                   out_rows, files, out_file, model_i,
                   tool_vars>>

\* A call labels_for_expire_month(con, transactions, ym) on the same file.
LabelsForExpireMonth(ym) ==
    /\ pc = "created"
    /\ expire_month' = ym
    /\ bt_labels' = labels_for_expire_month(transactions, ym, WindowDays)
    /\ pc' = "labelled"
    /\ UNCHANGED <<transactions, user_logs, train, cutoff_date, labels_df,
                   min_accuracy, validation, audit_df, labels_file, audit_file,
                   exit_code, joined,
                   windows, win_i, models_present, feats,
                   out_rows, files, out_file, model_i,
                   tool_vars>>

(***************************************************************************)
(* src/src/labels.py: main, the label command.                             *)
(***************************************************************************)
\* Rows the transactions CSV of the label command is drawn from: a purchase
\* expiring 2017-02-15 and renewals 1 and 5 days after it.
MainTxRows ==
    [msno : Users, transaction_date : {20170101},
     membership_expire_date : {20170215}, is_cancel : {0}]
    \cup
    [msno : Users, transaction_date : {20170216, 20170220},
     membership_expire_date : {20170320}, is_cancel : {0}]

\* Rows of the official labels CSV; the is_churn cell may be empty.
TrainRows == [msno : Users, is_churn : {0, 1, NULL}]

\* --min-accuracy values, in percent.
MinAccuracies == {50, 99, 100}

\* sys.exit(1) of the handler of a failed validation (line 380).
GateExitCode == 1

\* sys.exit(1) of the handler "except Exception" (line 392).
ErrorExitCode == 1

\* One more row in the official labels CSV (one row per msno).
AppendTrainLabel(row) ==
    /\ pc = "load"
    /\ \A t \in train : t.msno # row.msno
    /\ train' = train \cup {row}
    /\ UNCHANGED <<transactions, user_logs, pc, cutoff_date, labels_df,
                   expire_month, bt_labels, min_accuracy, validation, audit_df,
                   labels_file, audit_file, exit_code, joined,
                   windows, win_i, models_present, feats,
                   out_rows, files, out_file, model_i,
                   tool_vars>>

\* main, lines 346-351: labels_df = create_churn_labels(...).
MainCreateLabels(c, pct) ==
    /\ pc = "load"
    /\ cutoff_date' = c
    /\ min_accuracy' = pct
    /\ labels_df' = create_churn_labels(transactions, train, c, WindowDays)
    /\ pc' = "validate"
    /\ UNCHANGED <<transactions, user_logs, train, expire_month, bt_labels,
                   validation, audit_df, labels_file, audit_file, exit_code,
                   joined,
                   windows, win_i, models_present, feats,
                   out_rows, files, out_file, model_i,
                   tool_vars>>

\* main when an input file does not exist: create_churn_labels raises
\* FileNotFoundError (lines 48-52), "except Exception" exits.
MainFileNotFound ==
    /\ pc = "load"
    /\ transactions = {} \/ train = {}
    /\ exit_code' = ErrorExitCode
    /\ pc' = "exit"
    /\ UNCHANGED <<transactions, user_logs, train, cutoff_date, labels_df,
                   expire_month, bt_labels, min_accuracy, validation, audit_df,
                   labels_file, audit_file, joined,
                   windows, win_i, models_present, feats,
                   out_rows, files, out_file, model_i,
                   tool_vars>>

\* main, line 358: validate_labels returns, or raises ValueError.
MainValidate ==
    /\ pc = "validate"
    /\ validation' = validate_labels(labels_df, min_accuracy)
    /\ pc' = IF validation'.outcome = "returned" THEN "audit" ELSE "except"
    /\ UNCHANGED <<transactions, user_logs, train, cutoff_date, labels_df,
                   expire_month, bt_labels, min_accuracy, audit_df,
                   labels_file, audit_file, exit_code, joined,
                   windows, win_i, models_present, feats,
                   out_rows, files, out_file, model_i,
                   tool_vars>>

\* main, lines 361-368: the audit after a passed validation.
MainAuditPassed ==
    /\ pc = "audit"
    /\ audit_df' = mismatch_audit(labels_df)
    /\ audit_file' = IF Len(audit_df') > 0
                     THEN [exists |-> TRUE, rows |-> audit_df']
                     ELSE audit_file
    /\ pc' = "save"
    /\ UNCHANGED <<transactions, user_logs, train, cutoff_date, labels_df,
                   expire_month, bt_labels, min_accuracy, validation,
                   labels_file, exit_code, joined,
                   windows, win_i, models_present, feats,
                   out_rows, files, out_file, model_i,
                   tool_vars>>

\* main, lines 370-380: the handler of ValueError; sys.exit(1) sits inside
\* "if len(mismatch_df) > 0".
MainAuditFailed ==
    /\ pc = "except"
    /\ audit_df' = mismatch_audit(labels_df)
    /\ IF Len(audit_df') > 0
       THEN /\ audit_file' = [exists |-> TRUE, rows |-> audit_df']
            /\ exit_code' = GateExitCode
            /\ pc' = "exit"
       ELSE /\ UNCHANGED <<audit_file, exit_code,
                   windows, win_i, models_present, feats,
                   out_rows, files, out_file, model_i,
                   tool_vars>>
            /\ pc' = "save"
    /\ UNCHANGED <<transactions, user_logs, train, cutoff_date, labels_df,
                   expire_month, bt_labels, min_accuracy, validation,
                   labels_file, joined,
                   windows, win_i, models_present, feats,
                   out_rows, files, out_file, model_i,
                   tool_vars>>

\* main, lines 383-385: labels_df[output_cols].to_csv(args.output).
MainSave ==
    /\ pc = "save"
    /\ labels_file' = [exists |-> TRUE, rows |-> output_cols(labels_df)]
    /\ pc' = "report"
    /\ UNCHANGED <<transactions, user_logs, train, cutoff_date, labels_df,
                   expire_month, bt_labels, min_accuracy, validation, audit_df,
                   audit_file, exit_code, joined,
                   windows, win_i, models_present, feats,
                   out_rows, files, out_file, model_i,
                   tool_vars>>

\* main, lines 387-392: the last print reads `accuracy`, which is unbound
\* when validate_labels raised; the NameError reaches "except Exception",
\* which exits with 1.  Otherwise main returns and the exit status is 0.
MainReport ==
    /\ pc = "report"
    /\ exit_code' = IF validation.outcome = "returned" THEN 0 ELSE ErrorExitCode
    /\ pc' = "exit"
    /\ UNCHANGED <<transactions, user_logs, train, cutoff_date, labels_df,
                   expire_month, bt_labels, min_accuracy, validation, audit_df,
                   labels_file, audit_file, joined,
                   windows, win_i, models_present, feats,
                   out_rows, files, out_file, model_i,
                   tool_vars>>

InitMain ==
    /\ transactions = {}
    /\ user_logs = {}
    /\ train = {}
    /\ pc = "load"
    /\ cutoff_date = NULL
    /\ labels_df = NoTable
    /\ expire_month = NoMonth
    /\ bt_labels = NoTable
    /\ min_accuracy = NULL
    /\ validation = NotValidated
    /\ audit_df = << >>
    /\ labels_file = NoFile
    /\ audit_file = NoAudit
    /\ exit_code = NULL
    /\ joined = NoTable
    /\ windows = << >>
    /\ win_i = 0
    /\ models_present = {}
    /\ feats = NoTable
    /\ out_rows = << >>
    /\ files = NoFiles
    /\ out_file = NoAudit
    /\ model_i = 0
    /\ ToolsIdle

NextMain ==
    \/ \E r \in MainTxRows : AppendTransaction(r)
    \/ \E row \in TrainRows : AppendTrainLabel(row)
    \/ \E pct \in MinAccuracies : MainCreateLabels(MkDate(2017, 3, 1), pct)
    \/ MainFileNotFound
    \/ MainValidate
    \/ MainAuditPassed
    \/ MainAuditFailed
    \/ MainSave
    \/ MainReport

SpecMain == InitMain /\ [][NextMain]_vars

(***************************************************************************)
(* src/src/labels.py: mismatch_audit applied to a frame of labels.         *)
(***************************************************************************)
\* days_to_next values of the frame: no renewal, and renewals 1, 29, 31 and
\* 45 days after the expiration.
AuditDays == {NULL, 1, 29, 31, 45}

\* A row as create_churn_labels returns it for a user whose membership
\* expired on 2017-02-15: renewal d days later (none when d is NULL),
\* official label o.
label_row(u, d, o) ==
    LET E == MkDate(2017, 2, 15)
        next == IF d = NULL THEN NULL ELSE E + d
    IN  [msno |-> u,
         is_churn |-> churn_case(E, next, WindowDays),
         last_expire_date |-> E,
         next_txn_date |-> next,
         days_to_next |-> IF next = NULL THEN NULL ELSE DateDiff(E, next),
         official_is_churn |-> o]

\* Rows the frame passed to mismatch_audit is drawn from.
AuditLabelRows ==
    { label_row(u, d, o) : u \in Users, d \in AuditDays, o \in {0, 1, NULL} }

\* One more row in the frame (one row per msno).
AppendLabelRow(row) ==
    /\ pc = "load"
    /\ \A x \in labels_df : x.msno # row.msno
    /\ labels_df' = labels_df \cup {row}
    /\ UNCHANGED <<transactions, user_logs, train, pc, cutoff_date,
                   expire_month, bt_labels, min_accuracy, validation, audit_df,
                   labels_file, audit_file, exit_code, joined,
                   windows, win_i, models_present, feats,
                   out_rows, files, out_file, model_i,
                   tool_vars>>

\* A call mismatch_audit(labels_df).
RunMismatchAudit ==
    /\ pc = "load"
    /\ audit_df' = mismatch_audit(labels_df)
    /\ pc' = "audited"
    /\ UNCHANGED <<transactions, user_logs, train, cutoff_date, labels_df,
                   expire_month, bt_labels, min_accuracy, validation,
                   labels_file, audit_file, exit_code, joined,
                   windows, win_i, models_present, feats,
                   out_rows, files, out_file, model_i,
                   tool_vars>>

NextAudit ==
    \/ \E row \in AuditLabelRows : AppendLabelRow(row)
    \/ RunMismatchAudit

SpecAudit == InitMain /\ [][NextAudit]_vars

(***************************************************************************)
(* src/src/make_dataset.py: the script.                                    *)
(***************************************************************************)
\* Largest number of rows in the user_logs CSV.
MaxLogs == 2

\* Rows the transactions CSV of make_dataset is drawn from: made before or
\* after 2017-03-15, expiring on 2017-03-05 or 2017-03-15.
FeatureTxRows ==
    [msno : Users, transaction_date : {20170301, 20170320},
     membership_expire_date : {20170305, 20170315}, is_cancel : {0, 1},
     payment_plan_days : {30}, is_auto_renew : {1}]

\* Rows the user_logs CSV is drawn from: 31, 30 and 1 day before 2017-03-15,
\* and that day.
LogRows ==
    [msno : Users, date : {20170212, 20170213, 20170314, 20170315},
     total_secs : {3600}, num_unq : {10}]

\* One more row in the user_logs CSV.
AppendUserLog(l) ==
    /\ pc = "load"
    /\ Cardinality(user_logs) < MaxLogs
    /\ l \notin user_logs
    /\ user_logs' = user_logs \cup {l}
    /\ UNCHANGED <<transactions, train, pc, cutoff_date, labels_df,
                   expire_month, bt_labels, min_accuracy, validation, audit_df,
                   labels_file, audit_file, exit_code, joined,
                   windows, win_i, models_present, feats,
                   out_rows, files, out_file, model_i,
                   tool_vars>>

\* A run of make_dataset.py up to the table "joined".
MakeDataset ==
    /\ pc = "load"
    /\ joined' = make_joined(transactions, user_logs, train)
    /\ pc' = "joined"
    /\ UNCHANGED <<transactions, user_logs, train, cutoff_date, labels_df,
                   expire_month, bt_labels, min_accuracy, validation, audit_df,
                   labels_file, audit_file, exit_code,
                   windows, win_i, models_present, feats,
                   out_rows, files, out_file, model_i,
                   tool_vars>>

NextFeatures ==
    \/ \E r \in FeatureTxRows : AppendTransaction(r)
    \/ \E l \in LogRows : AppendUserLog(l)
    \/ MakeDataset

SpecFeatures == Init /\ [][NextFeatures]_vars

(***************************************************************************)
(* src/src/backtest.py: evaluate_window and main.                          *)
(***************************************************************************)
\* Largest number of pairs in --windows.
MaxWindows == 2

\* The models of the loops of evaluate_window and main, in their order.
ModelOrder == <<"logreg", "rf", "xgb">>

\* Sets of model files that exist under models/.
ModelSets == {{}, {"logreg", "xgb"}}

\* Pairs <<cutoff_ym, expire_ym>> the option --windows is drawn from; a month
\* is <<year, month>>.
WindowPairs ==
    { <<<<2016, 12>>, <<2017, 2>>>>,
      <<<<2016, 2>>, <<2017, 2>>>>,
      <<<<2017, 2>>, <<2017, 3>>>> }

\* The values of --windows: the lists of 1 .. MaxWindows pairs.
WindowLists ==
    UNION { [1..n -> WindowPairs] : n \in 1..MaxWindows }

\* Rows the transactions CSV of the backtest is drawn from: one membership
\* per user, expiring 2017-02-15 and not renewed.
BacktestTxRows ==
    [msno : Users, transaction_date : {20170101},
     membership_expire_date : {20170215}, is_cancel : {0}]

\* Feature tables build_features may return (the SQL it runs is an input of
\* the command), one row per msno of the placeholder file: the tables of the
\* first k users, k = 0 .. Len(UserOrder).
FeatureTables ==
    { { [msno |-> UserOrder[i], tx_count |-> 1] : i \in 1..k } :
      k \in 0..Len(UserOrder) }

\* The text 'YYYY-MM' of a month, which parse_month splits into (y, m).
ym_text(ym) ==
    ToString(ym[1]) \o "-" \o (IF ym[2] < 10 THEN "0" ELSE "") \o ToString(ym[2])

\* window_tag = f"{cutoff_ym}-{expire_ym}"; win_slug is the same text (its
\* replace calls find nothing to replace in it).
window_tag(w) == ym_text(w[1]) \o "-" \o ym_text(w[2])

\* tag = f"{cutoff_ym}->{expire_ym}" (the source writes an arrow character).
arrow_tag(w) == ym_text(w[1]) \o "->" \o ym_text(w[2])

\* A feature path that names the expire month alone.
features_path_expire_only(w) == "eval/features_" \o ym_text(w[2]) \o ".csv"

\* f"eval/features_{window_tag}.csv" and Path("eval")/f"features_{win_slug}.csv"
features_path(w) == "eval/features_" \o window_tag(w) \o ".csv"

\* Path("eval")/f"scores_{win_slug}_{mname}.csv"
scores_path(w, mname) ==
    "eval/scores_" \o window_tag(w) \o "_" \o mname \o ".csv"

\* feats.assign(window=tag)
assign_window(f, tag) ==
    { [msno |-> r.msno, tx_count |-> r.tx_count, window |-> tag] : r \in f }

\* merge with how="left": every feature row, labelled or not.
merge_left(f, labels) ==
    { <<r, r>> : r \in f }

\* feats.merge(labels, on="msno", how="inner"): the pairs of a feature row and
\* a label row with the same msno.
merge_inner(f, labels) ==
    { p \in f \X labels : p[1].msno = p[2].msno }

\* evaluate_window: the rows appended to out_rows, one per model file that
\* exists, in the order of the loop; n = len(y).  The metric values
\* themselves come from the pickled models and are left out.
evaluate_window(f, labels, tag, present) ==
    LET names == SelectSeq(ModelOrder, LAMBDA name : name \in present)
    IN  [k \in 1..Len(names) |->
           [window |-> tag, model |-> names[k],
            n |-> Cardinality(merge_inner(f, labels))]]

\* pd.DataFrame({"msno": feats["msno"], "score": p}); the score of a row is
\* what the model mname makes of the row's feature columns.
score_table(f, mname) ==
    { [msno |-> r.msno, score |-> <<mname, r.tx_count>>] : r \in f }

\* A file whose to_csv has begun and not ended: the final path holds the
\* header and no row yet.
partial_file == [rows |-> {}, complete |-> FALSE]

\* A file whose to_csv has ended.
written_file(content) == [rows |-> content, complete |-> TRUE]

\* The directory eval/ with the file at path p replaced.
put_file(fs, p, file) ==
    [q \in DOMAIN fs \cup {p} |-> IF q = p THEN file ELSE fs[q]]

\* The window the loop of main is at.
current_window == windows[win_i]

InitBacktest ==
    /\ transactions = {}
    /\ user_logs = {}
    /\ train = {}
    /\ pc = "load"
    /\ cutoff_date = NULL
    /\ labels_df = NoTable
    /\ expire_month = NoMonth
    /\ bt_labels = NoTable
    /\ min_accuracy = NULL
    /\ validation = NotValidated
    /\ audit_df = << >>
    /\ labels_file = NoFile
    /\ audit_file = NoAudit
    /\ exit_code = NULL
    /\ joined = NoTable
    /\ windows \in WindowLists
    /\ win_i = 0
    /\ models_present \in ModelSets
    /\ feats = NoTable
    /\ out_rows = << >>
    /\ files = NoFiles
    /\ out_file = NoAudit
    /\ model_i = 0
    /\ ToolsIdle

\* main, lines 159-165: rows = [], the loop over the windows begins.
StartBacktest ==
    /\ pc = "load"
    /\ out_rows' = << >>
    /\ win_i' = 1
    /\ pc' = "window"
    /\ UNCHANGED <<transactions, user_logs, train, cutoff_date, labels_df,
                   expire_month, bt_labels, min_accuracy, validation, audit_df,
                   labels_file, audit_file, exit_code, joined, windows,
                   models_present, feats, files, out_file, model_i,
                   tool_vars>>

\* main, lines 166-179: the cutoff is resolved and build_features returns.
BuildFeatures(f) ==
    /\ pc = "window"
    /\ win_i <= Len(windows)
    /\ cutoff_date' = month_bounds(current_window[1])[2]
    /\ feats' = f
    /\ pc' = "save_features"
    /\ UNCHANGED <<transactions, user_logs, train, labels_df, expire_month,
                   bt_labels, min_accuracy, validation, audit_df, labels_file,
                   audit_file, exit_code, joined, windows, win_i,
                   models_present, out_rows, files, out_file, model_i,
                   tool_vars>>

\* main, line 184: to_csv opens eval/features_<window_tag>.csv for writing.
OpenFeaturesCsv ==
    /\ pc = "save_features"
    /\ files' = put_file(files, features_path(current_window), partial_file)
    /\ pc' = "writing_features"
    /\ UNCHANGED <<transactions, user_logs, train, cutoff_date, labels_df,
                   expire_month, bt_labels, min_accuracy, validation, audit_df,
                   labels_file, audit_file, exit_code, joined, windows, win_i,
                   models_present, feats, out_rows, out_file, model_i,
                   tool_vars>>

\* main, line 184: to_csv has written every row and closed the file.
CloseFeaturesCsv ==
    /\ pc = "writing_features"
    /\ files' = put_file(files, features_path(current_window),
                         written_file(assign_window(feats,
                                                    window_tag(current_window))))
    /\ pc' = "labels"
    /\ UNCHANGED <<transactions, user_logs, train, cutoff_date, labels_df,
                   expire_month, bt_labels, min_accuracy, validation, audit_df,
                   labels_file, audit_file, exit_code, joined, windows, win_i,
                   models_present, feats, out_rows, out_file, model_i,
                   tool_vars>>

\* main, lines 187-188: labels = labels_for_expire_month(...).
BuildLabels ==
    /\ pc = "labels"
    /\ expire_month' = current_window[2]
    /\ bt_labels' = labels_for_expire_month(transactions, current_window[2],
                                            WindowDays)
    /\ pc' = "evaluate"
    /\ UNCHANGED <<transactions, user_logs, train, cutoff_date, labels_df,
                   min_accuracy, validation, audit_df, labels_file, audit_file,
                   exit_code, joined, windows, win_i, models_present, feats,
                   out_rows, files, out_file, model_i,
                   tool_vars>>

\* main, line 190: evaluate_window appends the metric rows of the window.
EvaluateWindow ==
    /\ pc = "evaluate"
    /\ out_rows' = out_rows \o evaluate_window(feats, bt_labels,
                                               arrow_tag(current_window),
                                               models_present)
    /\ pc' = "persist_features"
    /\ UNCHANGED <<transactions, user_logs, train, cutoff_date, labels_df,
                   expire_month, bt_labels, min_accuracy, validation, audit_df,
                   labels_file, audit_file, exit_code, joined, windows, win_i,
                   models_present, feats, files, out_file, model_i,
                   tool_vars>>

\* main, lines 193-196: to_csv opens eval/features_<win_slug>.csv again.
OpenPersistCsv ==
    /\ pc = "persist_features"
    /\ files' = put_file(files, features_path(current_window), partial_file)
    /\ pc' = "writing_persist"
    /\ UNCHANGED <<transactions, user_logs, train, cutoff_date, labels_df,
                   expire_month, bt_labels, min_accuracy, validation, audit_df,
                   labels_file, audit_file, exit_code, joined, windows, win_i,
                   models_present, feats, out_rows, out_file, model_i,
                   tool_vars>>

\* main, lines 194-196: the second to_csv of the features has ended; the
\* loop over the models begins.
ClosePersistCsv ==
    /\ pc = "writing_persist"
    /\ files' = put_file(files, features_path(current_window),
                         written_file(assign_window(feats,
                                                    arrow_tag(current_window))))
    /\ model_i' = 1
    /\ pc' = "scores"
    /\ UNCHANGED <<transactions, user_logs, train, cutoff_date, labels_df,
                   expire_month, bt_labels, min_accuracy, validation, audit_df,
                   labels_file, audit_file, exit_code, joined, windows, win_i,
                   models_present, feats, out_rows, out_file,
                   tool_vars>>

\* main, line 200: if not path.exists(): continue.
SkipModel ==
    /\ pc = "scores"
    /\ model_i <= Len(ModelOrder)
    /\ ModelOrder[model_i] \notin models_present
    /\ model_i' = model_i + 1
    /\ UNCHANGED <<transactions, user_logs, train, pc, cutoff_date, labels_df,
                   expire_month, bt_labels, min_accuracy, validation, audit_df,
                   labels_file, audit_file, exit_code, joined, windows, win_i,
                   models_present, feats, out_rows, files, out_file,
                   tool_vars>>

\* main, lines 201-217: the model is loaded, scores the features, and to_csv
\* opens eval/scores_<win_slug>_<mname>.csv.
OpenScoresCsv ==
    /\ pc = "scores"
    /\ model_i <= Len(ModelOrder)
    /\ ModelOrder[model_i] \in models_present
    /\ files' = put_file(files, scores_path(current_window, ModelOrder[model_i]),
                         partial_file)
    /\ pc' = "writing_scores"
    /\ UNCHANGED <<transactions, user_logs, train, cutoff_date, labels_df,
                   expire_month, bt_labels, min_accuracy, validation, audit_df,
                   labels_file, audit_file, exit_code, joined, windows, win_i,
                   models_present, feats, out_rows, out_file, model_i,
                   tool_vars>>

\* main, lines 216-218: the to_csv of the scores has ended.
CloseScoresCsv ==
    /\ pc = "writing_scores"
    /\ files' = put_file(files, scores_path(current_window, ModelOrder[model_i]),
                         written_file(score_table(feats, ModelOrder[model_i])))
    /\ model_i' = model_i + 1
    /\ pc' = "scores"
    /\ UNCHANGED <<transactions, user_logs, train, cutoff_date, labels_df,
                   expire_month, bt_labels, min_accuracy, validation, audit_df,
                   labels_file, audit_file, exit_code, joined, windows, win_i,
                   models_present, feats, out_rows, out_file,
                   tool_vars>>

\* main, line 165: the loop moves to the next pair.
NextWindow ==
    /\ pc = "scores"
    /\ model_i > Len(ModelOrder)
    /\ win_i' = win_i + 1
    /\ pc' = "window"
    /\ UNCHANGED <<transactions, user_logs, train, cutoff_date, labels_df,
                   expire_month, bt_labels, min_accuracy, validation, audit_df,
                   labels_file, audit_file, exit_code, joined, windows,
                   models_present, feats, out_rows, files, out_file, model_i,
                   tool_vars>>

\* main, lines 220-221: after the loop pd.DataFrame(rows).to_csv(args.out)
\* and the message "Wrote ..."; main returns.
WriteOut ==
    /\ pc = "window"
    /\ win_i > Len(windows)
    /\ out_file' = [exists |-> TRUE, rows |-> out_rows]
    /\ exit_code' = 0
    /\ pc' = "done"
    /\ UNCHANGED <<transactions, user_logs, train, cutoff_date, labels_df,
                   expire_month, bt_labels, min_accuracy, validation, audit_df,
                   labels_file, audit_file, joined, windows, win_i,
                   models_present, feats, out_rows, files, model_i,
                   tool_vars>>

\* A step of the window raises (an input file is missing, the SQL or a model
\* fails): main has no handler, the exception ends the run.
WindowFails ==
    /\ \/ pc = "window" /\ win_i <= Len(windows)
       \/ pc \in {"labels", "evaluate"}
       \/ /\ pc = "scores"
          /\ model_i <= Len(ModelOrder)
          /\ ModelOrder[model_i] \in models_present
    /\ exit_code' = 1
    /\ pc' = "failed"
    /\ UNCHANGED <<transactions, user_logs, train, cutoff_date, labels_df,
                   expire_month, bt_labels, min_accuracy, validation, audit_df,
                   labels_file, audit_file, joined, windows, win_i,
                   models_present, feats, out_rows, files, out_file, model_i,
                   tool_vars>>

\* The process dies while a to_csv is writing.
Crash ==
    /\ pc \in {"writing_features", "writing_persist", "writing_scores"}
    /\ pc' = "killed"
    /\ UNCHANGED <<transactions, user_logs, train, cutoff_date, labels_df,
                   expire_month, bt_labels, min_accuracy, validation, audit_df,
                   labels_file, audit_file, exit_code, joined, windows, win_i,
                   models_present, feats, out_rows, files, out_file, model_i,
                   tool_vars>>

NextBacktest ==
    \/ \E r \in BacktestTxRows : AppendTransaction(r)
    \/ StartBacktest
    \/ \E f \in FeatureTables : BuildFeatures(f)
    \/ OpenFeaturesCsv
    \/ CloseFeaturesCsv
    \/ BuildLabels
    \/ EvaluateWindow
    \/ OpenPersistCsv
    \/ ClosePersistCsv
    \/ SkipModel
    \/ OpenScoresCsv
    \/ CloseScoresCsv
    \/ NextWindow
    \/ WriteOut
    \/ WindowFails
    \/ Crash

SpecBacktest == InitBacktest /\ [][NextBacktest]_vars

(***************************************************************************)
(* src/src/labels.py: create_churn_labels on rows with malformed dates.    *)
(***************************************************************************)
\* The integer n reads as a calendar date under the format '%Y%m%d'.
IsValidYmd(n) ==
    /\ n # NULL
    /\ (n \div 100) % 100 \in 1..12
    /\ n % 100 \in 1..DaysInMonth(n \div 10000, (n \div 100) % 100)

\* STRPTIME raises on a text that is not a date of its format; TRY_CAST(... AS
\* DATE) around it converts the TIMESTAMP it returns and does not catch the
\* error.  The query raises when a row that passes the NULL tests of the
\* WHERE clause carries such a date.
strptime_raises(tx) ==
    \E r \in tx :
        /\ r.msno # NullMsno
        /\ r.transaction_date # NULL
        /\ r.membership_expire_date # NULL
        /\ \/ ~IsValidYmd(r.transaction_date)
           \/ ~IsValidYmd(r.membership_expire_date)

\* Rows the transactions CSV is drawn from here: a purchase of 2017-01-01
\* expiring 2017-02-15, with either date missing or the expiration date
\* 20170230, which is no calendar date.
MalformedTxRows ==
    [msno : Users, transaction_date : {20170101, NULL},
     membership_expire_date : {20170215, NULL, 20170230}, is_cancel : {0}]

\* A call create_churn_labels(transactions, train, cutoff_date = c, 30) on a
\* file that may hold malformed dates: the frame, or the error of con.execute.
CreateChurnLabelsOrRaise(c) ==
    /\ pc = "load"
    /\ cutoff_date' = c
    /\ IF strptime_raises(transactions)
       THEN pc' = "raised" /\ UNCHANGED labels_df
       ELSE /\ labels_df' = create_churn_labels(transactions, train, c,
                                                WindowDays)
            /\ pc' = "created"
    /\ UNCHANGED <<transactions, user_logs, train, expire_month, bt_labels,
                   min_accuracy, validation, audit_df, labels_file, audit_file,
                   exit_code, joined, windows, win_i, models_present, feats,
                   out_rows, files, out_file, model_i,
                   tool_vars>>

NextDates ==
    \/ \E r \in MalformedTxRows : AppendTransaction(r)
    \/ \E c \in Cutoffs : CreateChurnLabelsOrRaise(c)

SpecDates == Init /\ [][NextDates]_vars

(***************************************************************************)
(* src/src/psi.py: psi_numeric; src/scripts/psi_scores.py: psi.            *)
(* A sample is a sequence of numbers.  Quantiles and proportions are exact *)
(* rationals: an edge is kept multiplied by the number of bins, a          *)
(* proportion is a pair <<numerator, denominator>>.                        *)
(***************************************************************************)
\* Largest length of a sample.
MaxSample == 3

\* bins=10, the default of psi_numeric and psi.
PsiBins == 10

\* The values of a sample, and the samples.
SampleValues == {0, 1, 3}

Samples == UNION { [1..n -> SampleValues] : n \in 1..MaxSample }

\* The label, feature and backtest commands have not run.
CommandsIdle ==
    /\ transactions = {}
    /\ user_logs = {}
    /\ train = {}
    /\ cutoff_date = NULL
    /\ labels_df = NoTable
    /\ expire_month = NoMonth
    /\ bt_labels = NoTable
    /\ min_accuracy = NULL
    /\ validation = NotValidated
    /\ audit_df = << >>
    /\ labels_file = NoFile
    /\ audit_file = NoAudit
    /\ exit_code = NULL
    /\ joined = NoTable
    /\ windows = << >>
    /\ win_i = 0
    /\ models_present = {}
    /\ feats = NoTable
    /\ out_rows = << >>
    /\ files = NoFiles
    /\ out_file = NoAudit
    /\ model_i = 0

\* The distinct values of a sample.
SampleRange(x) == { x[i] : i \in 1..Len(x) }

\* The k-th smallest element of the sample x, k in 1 .. Len(x).
kth(x, k) ==
    CHOOSE v \in SampleRange(x) :
        /\ Cardinality({ i \in 1..Len(x) : x[i] < v }) < k
        /\ k <= Cardinality({ i \in 1..Len(x) : x[i] <= v })

\* np.quantile(e, np.linspace(0, 1, bins + 1)), each edge times bins: the
\* quantile j / bins lies at the position j * (n - 1) / bins of the sorted
\* sample and is interpolated linearly between its two neighbours.
quantile_edges(e, bins) ==
    [j \in 0..bins |->
        LET h   == j * (Len(e) - 1)
            lo  == h \div bins
            xlo == kth(e, lo + 1)
            xhi == IF lo + 2 <= Len(e) THEN kth(e, lo + 2) ELSE xlo
        IN  bins * xlo + (h % bins) * (xhi - xlo)]

\* np.histogram(a, bins=edges)[0]: the count of bin j is the number of
\* elements in [edges[j-1], edges[j]), the last bin taking its right edge too.
histogram(a, edges, bins) ==
    LET below(j) ==
            IF j = bins
            THEN Cardinality({ i \in 1..Len(a) : bins * a[i] <= edges[j] })
            ELSE Cardinality({ i \in 1..Len(a) : bins * a[i] < edges[j] })
    IN  [j \in 1..bins |-> below(j) - below(j - 1)]

\* np.clip(count / n, 1e-6, None)
clipped(count, n) ==
    IF count * 1000000 < n THEN <<1, 1000000>> ELSE <<count, n>>

\* Two proportions are the same number.
same_proportion(p, q) == p[1] * q[2] = q[1] * p[2]

\* The sum of (a - e) * log(a / e) over the bins: every term is >= 0 and is
\* 0 exactly when a = e in its bin, so the sum is 0 when the two vectors of
\* proportions agree and positive (written 1) when they differ.
psi_sum(pa, pe, bins) ==
    IF \A j \in 1..bins : same_proportion(pa[j], pe[j]) THEN 0 ELSE 1

\* psi_numeric with the reference proportions taken to be 1 / bins in each
\* quantile bin instead of being counted.
psi_numeric_uniform_reference(a, e, bins) ==
    LET edges == quantile_edges(e, bins)
        ha == histogram(a, edges, bins)
    IN  psi_sum([j \in 1..bins |-> clipped(ha[j], Len(a))],
                [j \in 1..bins |-> <<1, bins>>], bins)

\* psi_numeric(a, e, bins)
psi_numeric(a, e, bins) ==
    LET edges == quantile_edges(e, bins)
        ha == histogram(a, edges, bins)
        he == histogram(e, edges, bins)
        na == IF Len(a) > 1 THEN Len(a) ELSE 1
        ne == IF Len(e) > 1 THEN Len(e) ELSE 1
    IN  psi_sum([j \in 1..bins |-> clipped(ha[j], na)],
                [j \in 1..bins |-> clipped(he[j], ne)], bins)

\* psi(a, e, bins) of psi_scores.py.
psi(a, e, bins) ==
    LET edges == quantile_edges(e, bins)
        c1 == histogram(a, edges, bins)
        c2 == histogram(e, edges, bins)
    IN  psi_sum([j \in 1..bins |-> clipped(c1[j], Len(a))],
                [j \in 1..bins |-> clipped(c2[j], Len(e))], bins)

InitPsi ==
    /\ CommandsIdle
    /\ pc = "load"
    /\ psi_a \in Samples
    /\ psi_e \in Samples
    /\ psi_val = NULL
    /\ ReportsIdle
    /\ SplittersIdle
    /\ EvaluateIdle
    /\ PipelineIdle

\* A call psi_numeric(psi_a, psi_e).
PsiNumeric ==
    /\ pc = "load"
    /\ psi_val' = psi_numeric(psi_a, psi_e, PsiBins)
    /\ pc' = "psi_numeric"
    /\ UNCHANGED <<command_vars, psi_a, psi_e, report_vars, cv_vars,
                   eval_vars, pipeline_vars>>

\* A call psi(psi_a, psi_e).
PsiScores ==
    /\ pc = "load"
    /\ psi_val' = psi(psi_a, psi_e, PsiBins)
    /\ pc' = "psi"
    /\ UNCHANGED <<command_vars, psi_a, psi_e, report_vars, cv_vars,
                   eval_vars, pipeline_vars>>

NextPsi ==
    \/ PsiNumeric
    \/ PsiScores

SpecPsi == InitPsi /\ [][NextPsi]_vars

(***************************************************************************)
(* src/src/psi.py: main; src/scripts/psi_scores.py: main.                  *)
(***************************************************************************)
\* A window of the feature or score files that no pair of WindowPairs names.
OtherWindow == <<<<2017, 3>>, <<2017, 4>>>>

\* The values of --ref: not given, the text of a window of the files, or the
\* text of a window that no file holds.
RefChoices == {""} \cup { arrow_tag(w) : w \in WindowPairs \cup {OtherWindow} }

\* The models whose score files psi_scores.py groups.
ScoreModels == {"logreg", "xgb"}

\* w1 sorts before w2: the order of the texts 'YYYY-MM...YYYY-MM', which is
\* the order of (year, month, year, month).
window_before(w1, w2) ==
    LET k1 == <<w1[1][1], w1[1][2], w1[2][1], w1[2][2]>>
        k2 == <<w2[1][1], w2[1][2], w2[2][1], w2[2][2]>>
    IN  \E i \in 1..4 :
           /\ k1[i] < k2[i]
           /\ \A j \in 1..(i - 1) : k1[j] = k2[j]

\* sorted(...)[0] and min(..., key=...) of a non-empty set of windows.
first_window(W) ==
    CHOOSE w \in W : \A v \in W \ {w} : window_before(w, v)

\* ref_window = args.ref or windows[0]
ref_window(W, ref) == IF ref # "" THEN ref ELSE arrow_tag(first_window(W))

\* The rows of psi.py with the test `if w == ref_window: continue` left out.
psi_report_with_reference(W, ref) ==
    IF \E v \in W : arrow_tag(v) = ref_window(W, ref)
    THEN { [window |-> arrow_tag(w), ref |-> ref_window(W, ref)] : w \in W }
    ELSE {}

\* The rows psi.py appends for the windows W of the feature files, one feature
\* column: a window other than the reference gets a row when the reference has
\* rows in the files (an empty ref_df is skipped, line 62).
psi_report(W, ref) ==
    IF \E v \in W : arrow_tag(v) = ref_window(W, ref)
    THEN { [window |-> arrow_tag(w), ref |-> ref_window(W, ref)] :
           w \in { v \in W : arrow_tag(v) # ref_window(W, ref) } }
    ELSE {}

\* text.replace("-", "->", 1) on the window text of a score file name (the
\* source replaces by an arrow character).
replace_first_dash(w) ==
    ToString(w[1][1]) \o "->" \o (IF w[1][2] < 10 THEN "0" ELSE "")
        \o ToString(w[1][2]) \o "-" \o ym_text(w[2])

\* The rows of psi_scores.py: for each model, every score file of the model
\* other than the reference file refp, the earliest window of the model.
psi_scores_report(F) ==
    { [model |-> f[2],
       window |-> replace_first_dash(f[1]),
       reference |->
          replace_first_dash(first_window({ g[1] : g \in { h \in F :
                                                            h[2] = f[2] } }))] :
      f \in { g \in F :
                g[1] # first_window({ h[1] : h \in { k \in F :
                                                       k[2] = g[2] } }) } }

InitDrift ==
    /\ CommandsIdle
    /\ SamplesIdle
    /\ SplittersIdle
    /\ EvaluateIdle
    /\ PipelineIdle
    /\ pc = "load"
    /\ psi_windows \in SUBSET WindowPairs
    /\ psi_ref \in RefChoices
    /\ score_files \in SUBSET (WindowPairs \X ScoreModels)
    /\ psi_rows = {}
    /\ score_rows = {}

\* A run of psi.py main on feature files that hold at least one window.
PsiMain ==
    /\ pc = "load"
    /\ psi_windows # {}
    /\ psi_rows' = psi_report(psi_windows, psi_ref)
    /\ pc' = "psi_written"
    /\ UNCHANGED <<command_vars, sample_vars, cv_vars, eval_vars,
                   pipeline_vars, psi_windows, psi_ref,
                   score_files, score_rows>>

\* A run of psi.py main on feature files with no row: windows[0] raises when
\* --ref is not given, else the report is empty.
PsiMainNoWindow ==
    /\ pc = "load"
    /\ psi_windows = {}
    /\ pc' = IF psi_ref = "" THEN "raised" ELSE "psi_written"
    /\ UNCHANGED <<command_vars, sample_vars, report_vars, cv_vars,
                   eval_vars, pipeline_vars>>

\* A run of psi_scores.py main.
PsiScoresMain ==
    /\ pc \in {"psi_written", "raised"}
    /\ score_rows' = psi_scores_report(score_files)
    /\ pc' = "scores_written"
    /\ UNCHANGED <<command_vars, sample_vars, cv_vars, eval_vars,
                   pipeline_vars, psi_windows, psi_ref,
                   score_files, psi_rows>>

NextDrift ==
    \/ PsiMain
    \/ PsiMainNoWindow
    \/ PsiScoresMain

SpecDrift == InitDrift /\ [][NextDrift]_vars

(***************************************************************************)
(* src/src/temporal_cv.py: TemporalSplit, ChurnTemporalCV,                 *)
(* temporal_cross_val_score.  A frame is the sequence of its times; an     *)
(* index array is the set of the positions it holds (1-based here).        *)
(***************************************************************************)
\* Largest number of rows of the frame.
MaxRows == 3

\* The values of the time column: mid December 2016, the first and the last
\* day of January 2017, and a day of February 2017.
TimeValues ==
    {MkDate(2016, 12, 15), MkDate(2017, 1, 1), MkDate(2017, 1, 31),
     MkDate(2017, 2, 10)}

\* The time columns of the frames.
TimeColumns == UNION { [1..n -> TimeValues] : n \in 0..MaxRows }

\* sorted(months) of the lists of months given to ChurnTemporalCV.
CvMonthLists ==
    { << <<2016, 12>>, <<2017, 1>> >>,
      << <<2017, 1>>, <<2017, 2>> >>,
      << <<2016, 12>>, <<2017, 2>> >>,
      << <<2016, 12>>, <<2017, 1>>, <<2017, 2>> >> }

\* The parameters of TemporalSplit: train_end, val_end (NULL for None) and
\* gap_days.
SplitParams ==
    [train_end : {MkDate(2017, 1, 1), MkDate(2017, 2, 1)},
     val_end : {NULL, MkDate(2017, 2, 1)},
     gap_days : {0, 31}]

\* TemporalSplit.split: <<train_idx, val_idx>>.
temporal_split(times, p) ==
    LET val_start == p.train_end + p.gap_days
    IN  << { k \in 1..Len(times) : times[k] < p.train_end },
           { k \in 1..Len(times) :
               /\ times[k] >= val_start
               /\ p.val_end # NULL => times[k] < p.val_end } >>

\* ChurnTemporalCV.split, month_ranges: (start, end) of the month m.
month_range(m) ==
    << MkDate(m[1], m[2], 1),
       IF m[2] = 12 THEN MkDate(m[1] + 1, 1, 1)
       ELSE MkDate(m[1], m[2] + 1, 1) >>

\* A fold whose training rows are all the rows before the end of the
\* validation month.
fold_through_validation_month(times, months, expanding, i) ==
    << { k \in 1..Len(times) : times[k] < month_range(months[i])[2] },
       { k \in 1..Len(times) :
           /\ times[k] >= month_range(months[i])[1]
           /\ times[k] < month_range(months[i])[2] } >>

\* ChurnTemporalCV.split: <<train_idx, val_idx>> of the fold whose validation
\* month is months[i], i in 2 .. Len(months).
fold(times, months, expanding, i) ==
    LET val_start == month_range(months[i])[1]
        val_end   == month_range(months[i])[2]
    IN  << IF expanding
           THEN { k \in 1..Len(times) : times[k] < val_start }
           ELSE { k \in 1..Len(times) :
                    /\ times[k] >= month_range(months[i - 1])[1]
                    /\ times[k] < month_range(months[i - 1])[2] },
           { k \in 1..Len(times) :
               times[k] >= val_start /\ times[k] < val_end } >>

\* ChurnTemporalCV.split: the folds yielded, in order; a fold with no
\* training row or no validation row is not yielded.
cv_split(times, months, expanding) ==
    SelectSeq([j \in 1..(Len(months) - 1) |->
                  fold(times, months, expanding, j + 1)],
              LAMBDA f : f[1] # {} /\ f[2] # {})

\* ChurnTemporalCV.get_n_splits
get_n_splits(months) == Len(months) - 1

\* ChurnTemporalCV.get_fold_description: for each i the training months and
\* the validation month of "Train: ..., Val: ...".
get_fold_description(months, expanding) ==
    [j \in 1..(Len(months) - 1) |->
        [train |-> IF expanding THEN SubSeq(months, 1, j) ELSE <<months[j]>>,
         val |-> months[j + 1]]]

\* temporal_cross_val_score: fold_details, one entry per fold yielded, with
\* description = fold_descriptions[fold_idx] (fold_idx counts from 0).
temporal_cross_val_score(times, months, expanding) ==
    LET folds == cv_split(times, months, expanding)
        fold_descriptions == get_fold_description(months, expanding)
    IN  [k \in 1..Len(folds) |->
            [fold |-> k - 1,
             description |-> fold_descriptions[k],
             n_train |-> Cardinality(folds[k][1]),
             n_val |-> Cardinality(folds[k][2])]]

InitSplit ==
    /\ CommandsIdle
    /\ SamplesIdle
    /\ ReportsIdle
    /\ EvaluateIdle
    /\ PipelineIdle
    /\ pc = "load"
    /\ cv_times \in TimeColumns
    /\ cv_months \in CvMonthLists
    /\ cv_expanding \in BOOLEAN
    /\ cv_folds = << >>
    /\ fold_details = << >>
    /\ ts_params \in SplitParams
    /\ ts_result = <<{}, {}>>

\* A call TemporalSplit(...).split(df).
TemporalSplitSplit ==
    /\ pc = "load"
    /\ ts_result' = temporal_split(cv_times, ts_params)
    /\ pc' = "split"
    /\ UNCHANGED <<command_vars, sample_vars, report_vars, eval_vars,
                   pipeline_vars, cv_times, cv_months,
                   cv_expanding, cv_folds, fold_details, ts_params>>

\* The folds of list(cv.split(df)).
ChurnTemporalCVSplit ==
    /\ pc = "load"
    /\ cv_folds' = cv_split(cv_times, cv_months, cv_expanding)
    /\ pc' = "folds"
    /\ UNCHANGED <<command_vars, sample_vars, report_vars, eval_vars,
                   pipeline_vars, cv_times, cv_months,
                   cv_expanding, fold_details, ts_params, ts_result>>

\* A call temporal_cross_val_score(estimator, X, y, cv): it walks cv.split(X)
\* and records a detail per fold.
TemporalCrossValScore ==
    /\ pc = "load"
    /\ cv_folds' = cv_split(cv_times, cv_months, cv_expanding)
    /\ fold_details' =
          temporal_cross_val_score(cv_times, cv_months, cv_expanding)
    /\ pc' = "scored"
    /\ UNCHANGED <<command_vars, sample_vars, report_vars, eval_vars,
                   pipeline_vars, cv_times, cv_months,
                   cv_expanding, ts_params, ts_result>>

NextSplit ==
    \/ TemporalSplitSplit
    \/ ChurnTemporalCVSplit
    \/ TemporalCrossValScore

SpecSplit == InitSplit /\ [][NextSplit]_vars

(***************************************************************************)
(* backtest.py, evaluate_window: the frame df, the target y and the input  *)
(* columns X.  A frame is [cols, rows]; a row is a function from the       *)
(* column names to the values.                                             *)
(***************************************************************************)

\* The expiry month of the window that is evaluated.
EvalMonth == <<2017, 2>>

\* Rows the transactions CSV is drawn from: a membership of each user that
\* expires 2017-02-15, and a renewal of u1 five days later.
EvalTxRows ==
    [msno : Users, transaction_date : {20170101},
     membership_expire_date : {20170215}, is_cancel : {0}]
    \cup { [msno |-> "u1", transaction_date |-> 20170220,
            membership_expire_date |-> 20170320, is_cancel |-> 0] }

\* The row of user u in a feature table with the columns cols; ch[u] is the
\* is_churn value the train placeholder holds for u.
feature_row(u, cols, ch) ==
    [c \in cols |->
       IF c = "msno" THEN u
       ELSE IF c = "is_churn" THEN ch[u]
       ELSE IF c = "cutoff_ts" THEN MkDate(2017, 1, 31)
       ELSE 1]

\* Feature tables build_features may return (the SQL it runs is an input of
\* the command): msno and a feature column, with or without the columns
\* is_churn and cutoff_ts that features_comprehensive_processor.py excludes
\* from the features, for the first k users.
EvalFrames ==
    { [cols |-> {"msno", "tx_count"} \cup extra,
       rows |-> { feature_row(UserOrder[i], {"msno", "tx_count"} \cup extra, ch) :
                  i \in 1..k }] :
      extra \in SUBSET {"is_churn", "cutoff_ts"},
      k \in 0..Len(UserOrder),
      ch \in [Users -> {0, 1}] }

\* The name the merge gives the labels' column is_churn: a column of both
\* frames keeps its name on the left (suffix "") and gets the suffix
\* "_label" on the right.
label_column(f) ==
    IF "is_churn" \in f.cols THEN "is_churn_label" ELSE "is_churn"

\* Line 109: df = feats.merge(labels, on="msno", how="inner",
\* suffixes=("", "_label")).
evaluate_df(f, labels) ==
    LET cols == f.cols \cup {label_column(f)}
        pairs == { p \in f.rows \X labels : p[1]["msno"] = p[2].msno }
    IN  [cols |-> cols,
         rows |-> { [c \in cols |->
                       IF c \in f.cols THEN p[1][c] ELSE p[2].is_churn] :
                    p \in pairs }]

\* Line 110: y = df["is_churn"], kept with the msno of its row.
evaluate_y(df) ==
    { <<r["msno"], r["is_churn"]>> : r \in df.rows }

\* Line 113.
drop_cols == {"msno", "is_churn", "cutoff_ts"}

\* Line 114: the columns of X.
evaluate_X(df) ==
    { c \in df.cols : c \notin drop_cols }

InitEvaluate ==
    /\ pc = "load"
    /\ transactions \in SUBSET EvalTxRows
    /\ user_logs = {}
    /\ train = {}
    /\ cutoff_date = NULL
    /\ labels_df = NoTable
    /\ expire_month = NoMonth
    /\ bt_labels = NoTable
    /\ min_accuracy = NULL
    /\ validation = NotValidated
    /\ audit_df = << >>
    /\ labels_file = NoFile
    /\ audit_file = NoAudit
    /\ exit_code = NULL
    /\ joined = NoTable
    /\ windows = << >>
    /\ win_i = 0
    /\ models_present = {}
    /\ feats = NoTable
    /\ out_rows = << >>
    /\ files = NoFiles
    /\ out_file = NoAudit
    /\ model_i = 0
    /\ SamplesIdle
    /\ ReportsIdle
    /\ SplittersIdle
    /\ PipelineIdle
    /\ eval_feats \in EvalFrames
    /\ eval_y = {}
    /\ eval_x_cols = {}

\* main, line 187: the labels of the window's expiry month.
LabelsForEvaluate ==
    /\ pc = "load"
    /\ expire_month' = EvalMonth
    /\ bt_labels' = labels_for_expire_month(transactions, EvalMonth, WindowDays)
    /\ pc' = "evaluate_frame"
    /\ UNCHANGED <<transactions, user_logs, train, cutoff_date, labels_df,
                   min_accuracy, validation, audit_df, labels_file, audit_file,
                   exit_code, joined, windows, win_i, models_present, feats,
                   out_rows, files, out_file, model_i,
                   sample_vars, report_vars, cv_vars, eval_vars, pipeline_vars>>

\* evaluate_window, lines 109-114.
EvaluateFrame ==
    /\ pc = "evaluate_frame"
    /\ eval_y' = evaluate_y(evaluate_df(eval_feats, bt_labels))
    /\ eval_x_cols' = evaluate_X(evaluate_df(eval_feats, bt_labels))
    /\ pc' = "evaluated"
    /\ UNCHANGED <<command_vars, sample_vars, report_vars, cv_vars,
                   pipeline_vars, eval_feats>>

NextEvaluate ==
    \/ LabelsForEvaluate
    \/ EvaluateFrame

SpecEvaluate == InitEvaluate /\ [][NextEvaluate]_vars

(***************************************************************************)
(* run_full_pipeline.py: main runs the phases one after the other; each    *)
(* phase is one call of run_command, whose subprocess ends with a return   *)
(* code, is killed at its timeout, or cannot be started.                   *)
(***************************************************************************)

\* How a call of subprocess.run ends: return code 0, another return code,
\* TimeoutExpired, or another exception.
Outcomes == {"ok", "failed", "timeout", "error"}

\* The values of the three --skip-* options.
PipelineArgs ==
    [skip_features : BOOLEAN, skip_tuning : BOOLEAN, skip_stacking : BOOLEAN]

\* Which files exist: the scripts of check_prerequisites, the three feature
\* files of lines 162-166, and models/best_hyperparameters.json.
PipelineEnvs ==
    [prerequisites : BOOLEAN, feature_files : BOOLEAN,
     best_hyperparameters : BOOLEAN]

\* run_command counting a command killed at its timeout as a success.
run_command_timeout_succeeds(outcome) ==
    outcome \in {"ok", "timeout"}

\* run_command, lines 24-54: True only when the command returned 0; False on
\* another return code, on TimeoutExpired and on any other exception.
run_command(outcome) ==
    outcome = "ok"

\* The calls of run_command so far, with the call of a phase added.
logged(phase, outcome) ==
    Append(pl_log, [phase |-> phase, outcome |-> outcome])

\* completed_steps after a phase: the phase is appended when its command
\* succeeded.
appended(phase, outcome) ==
    IF run_command(outcome) THEN Append(completed_steps, phase)
    ELSE completed_steps

InitPipeline ==
    /\ CommandsIdle
    /\ SamplesIdle
    /\ ReportsIdle
    /\ SplittersIdle
    /\ EvaluateIdle
    /\ pc = "check_prerequisites"
    /\ pl_args \in PipelineArgs
    /\ pl_env \in PipelineEnvs
    /\ completed_steps = << >>
    /\ pl_log = << >>
    /\ pl_exit = NULL

\* Lines 122-128: sys.exit(1) when a required script is missing.
CheckPrerequisites ==
    /\ pc = "check_prerequisites"
    /\ IF ~pl_env.prerequisites
       THEN pl_exit' = 1 /\ pc' = "exited"
       ELSE /\ pl_exit' = pl_exit
            /\ pc' = IF pl_args.skip_features THEN "skip_features"
                     ELSE "historical_features"
    /\ UNCHANGED <<command_vars, sample_vars, report_vars, cv_vars, eval_vars,
                   pl_args, pl_env, completed_steps, pl_log>>

\* Lines 131-142: check_data_files only warns; then historical_features.py.
HistoricalFeatures(outcome) ==
    /\ pc = "historical_features"
    /\ pl_log' = logged("historical_features", outcome)
    /\ completed_steps' = appended("historical_features", outcome)
    /\ pc' = "feature_generation"
    /\ UNCHANGED <<command_vars, sample_vars, report_vars, cv_vars, eval_vars,
                   pl_args, pl_env, pl_exit>>

\* Lines 145-158: backtest.py regenerates the features.
FeatureGeneration(outcome) ==
    /\ pc = "feature_generation"
    /\ pl_log' = logged("feature_generation", outcome)
    /\ completed_steps' = appended("feature_generation", outcome)
    /\ pc' = "hyperparameter_tuning"
    /\ UNCHANGED <<command_vars, sample_vars, report_vars, cv_vars, eval_vars,
                   pl_args, pl_env, pl_exit>>

\* Lines 159-173: under --skip-features the feature files must exist.
SkipFeatures ==
    /\ pc = "skip_features"
    /\ IF ~pl_env.feature_files
       THEN /\ pl_exit' = 1
            /\ pc' = "exited"
            /\ completed_steps' = completed_steps
       ELSE /\ pl_exit' = pl_exit
            /\ pc' = "hyperparameter_tuning"
            /\ completed_steps' = Append(completed_steps, "feature_generation")
    /\ UNCHANGED <<command_vars, sample_vars, report_vars, cv_vars, eval_vars,
                   pl_args, pl_env, pl_log>>

\* Lines 176-184: hyperparameter_tuning.py.
HyperparameterTuning(outcome) ==
    /\ pc = "hyperparameter_tuning"
    /\ ~pl_args.skip_tuning
    /\ pl_log' = logged("hyperparameter_tuning", outcome)
    /\ completed_steps' = appended("hyperparameter_tuning", outcome)
    /\ pc' = "stacked_ensemble"
    /\ UNCHANGED <<command_vars, sample_vars, report_vars, cv_vars, eval_vars,
                   pl_args, pl_env, pl_exit>>

\* Lines 185-191: under --skip-tuning the step counts as completed when
\* models/best_hyperparameters.json exists.
SkipTuning ==
    /\ pc = "hyperparameter_tuning"
    /\ pl_args.skip_tuning
    /\ completed_steps' =
          IF pl_env.best_hyperparameters
          THEN Append(completed_steps, "hyperparameter_tuning")
          ELSE completed_steps
    /\ pc' = "stacked_ensemble"
    /\ UNCHANGED <<command_vars, sample_vars, report_vars, cv_vars, eval_vars,
                   pl_args, pl_env, pl_log, pl_exit>>

\* Lines 194-202: stacking.py.
StackedEnsemble(outcome) ==
    /\ pc = "stacked_ensemble"
    /\ ~pl_args.skip_stacking
    /\ pl_log' = logged("stacked_ensemble", outcome)
    /\ completed_steps' = appended("stacked_ensemble", outcome)
    /\ pc' = "final_training"
    /\ UNCHANGED <<command_vars, sample_vars, report_vars, cv_vars, eval_vars,
                   pl_args, pl_env, pl_exit>>

\* Lines 203-204: under --skip-stacking nothing is recorded.
SkipStacking ==
    /\ pc = "stacked_ensemble"
    /\ pl_args.skip_stacking
    /\ pc' = "final_training"
    /\ UNCHANGED <<command_vars, sample_vars, report_vars, cv_vars, eval_vars,
                   pipeline_vars>>

\* Lines 207-252: train_temporal.py; sys.exit(1) when it failed, else the
\* summary is printed and main returns.
FinalTraining(outcome) ==
    /\ pc = "final_training"
    /\ pl_log' = logged("final_training", outcome)
    /\ completed_steps' = appended("final_training", outcome)
    /\ pl_exit' = IF run_command(outcome) THEN 0 ELSE 1
    /\ pc' = "exited"
    /\ UNCHANGED <<command_vars, sample_vars, report_vars, cv_vars, eval_vars,
                   pl_args, pl_env>>

NextPipeline ==
    \/ CheckPrerequisites
    \/ \E outcome \in Outcomes : HistoricalFeatures(outcome)
    \/ \E outcome \in Outcomes : FeatureGeneration(outcome)
    \/ SkipFeatures
    \/ \E outcome \in Outcomes : HyperparameterTuning(outcome)
    \/ SkipTuning
    \/ \E outcome \in Outcomes : StackedEnsemble(outcome)
    \/ SkipStacking
    \/ \E outcome \in Outcomes : FinalTraining(outcome)

SpecPipeline == InitPipeline /\ [][NextPipeline]_vars

\* main is straight-line code and every call of run_command returns: the
\* subprocess ends by itself or is killed at its timeout.  So a step that
\* can be taken is taken.
SpecPipelineFair == SpecPipeline /\ WF_vars(NextPipeline)

Next ==
    \/ \E r \in TxRows : AppendTransaction(r)
    \/ \E c \in Cutoffs : CreateChurnLabels(c)
    \/ \E ym \in Months : LabelsForExpireMonth(ym)

Spec == Init /\ [][Next]_vars

(***************************************************************************)
(* Vocabulary of the labeling claims, stated on the raw CSV rows.          *)
(***************************************************************************)
UserRows(u) == { r \in transactions : r.msno = u }
Txn(r) == StrpTime(r.transaction_date)
Exp(r) == StrpTime(r.membership_expire_date)

MaxOrNull(S) == IF S = {} THEN NULL ELSE SetMax(S)

\* The expire date is a day of the month ym.
ExpiresIn(r, ym) == r.membership_expire_date \div 100 = ym[1] * 100 + ym[2]

\* Qualifying expiration of u for create_churn_labels with cutoff c: the latest
\* expiration before c among the transactions made before c.
QualifyingBefore(u, c) ==
    MaxOrNull({ Exp(r) : r \in { q \in UserRows(u) : Txn(q) < c /\ Exp(q) < c } })

\* Qualifying expiration of u for labels_for_expire_month: the latest
\* expiration inside the month.
QualifyingIn(u, ym) ==
    MaxOrNull({ Exp(r) : r \in { q \in UserRows(u) : ExpiresIn(q, ym) } })

\* u has a non-cancel transaction that extends membership beyond E and is
\* dated between lo and hi days after E.
RenewedWithin(u, E, lo, hi) ==
    \E r \in UserRows(u) :
        /\ r.is_cancel = 0
        /\ Exp(r) > E
        /\ E + lo <= Txn(r) /\ Txn(r) <= E + hi

\* Every transaction of u dated on or after E is a cancellation.
OnlyCancelsAfter(u, E) ==
    \A r \in UserRows(u) : Txn(r) >= E => r.is_cancel = 1

\* The is_churn values a label table holds for u.
ChurnOf(table, u) == { x.is_churn : x \in { y \in table : y.msno = u } }

(***************************************************************************)
(* Claims C2 .. C8: the 30-day rule.                                       *)
(***************************************************************************)
\* C2: a user with a qualifying expiration E and no non-cancel transaction
\* extending membership beyond E dated within 30 days after E is labelled
\* is_churn = 1 by create_churn_labels and by labels_for_expire_month.
C2_NoRenewalIsChurn ==
    /\ \A x \in labels_df :
         ~RenewedWithin(x.msno, QualifyingBefore(x.msno, cutoff_date), 0, WindowDays)
            => x.is_churn = 1
    /\ \A x \in bt_labels :
         ~RenewedWithin(x.msno, QualifyingIn(x.msno, expire_month), 0, WindowDays)
            => x.is_churn = 1

\* C2 witness: both labelers have labelled as churn a user whose earliest
\* renewal comes 31 days after the qualifying expiration.
C2_Witness ==
    /\ pc = "labelled"
    /\ \E u \in Users :
         /\ RenewedWithin(u, QualifyingBefore(u, cutoff_date), 31, 31)
         /\ ~RenewedWithin(u, QualifyingBefore(u, cutoff_date), 0, WindowDays)
         /\ RenewedWithin(u, QualifyingIn(u, expire_month), 31, 31)
         /\ ~RenewedWithin(u, QualifyingIn(u, expire_month), 0, WindowDays)
         /\ \E x \in labels_df : x.msno = u /\ x.days_to_next = 31 /\ x.is_churn = 1
         /\ ChurnOf(bt_labels, u) = {1}

\* C3 (as claimed): a non-cancel transaction extending membership beyond E and
\* dated E+N, 1 <= N <= 30, gives is_churn = 0 in create_churn_labels (any
\* cutoff later than E) and in labels_for_expire_month.
C3_RenewalInWindowIsNotChurn ==
    /\ \A x \in labels_df :
         RenewedWithin(x.msno, QualifyingBefore(x.msno, cutoff_date), 1, WindowDays)
            => x.is_churn = 0
    /\ \A x \in bt_labels :
         RenewedWithin(x.msno, QualifyingIn(x.msno, expire_month), 1, WindowDays)
            => x.is_churn = 0

\* C4 (as claimed): a non-cancel renewal dated on the day of the qualifying
\* expiration (days_to_renewal = 0) and extending membership gives is_churn = 0.
C4_SameDayRenewalIsNotChurn ==
    /\ \A x \in labels_df :
         RenewedWithin(x.msno, QualifyingBefore(x.msno, cutoff_date), 0, 0)
            => x.is_churn = 0
    /\ \A x \in bt_labels :
         RenewedWithin(x.msno, QualifyingIn(x.msno, expire_month), 0, 0)
            => x.is_churn = 0

\* C5: a cancellation is never the renewal: a user whose transactions on or
\* after the qualifying expiration are all cancellations is labelled churn,
\* and next_txn_date is the date of a non-cancel transaction of the user.
C5_CancelIsNeverRenewal ==
    /\ \A x \in labels_df :
         /\ OnlyCancelsAfter(x.msno, QualifyingBefore(x.msno, cutoff_date))
              => x.is_churn = 1
         /\ x.next_txn_date # NULL =>
              \E r \in UserRows(x.msno) :
                  r.is_cancel = 0 /\ Txn(r) = x.next_txn_date
    /\ \A x \in bt_labels :
         OnlyCancelsAfter(x.msno, QualifyingIn(x.msno, expire_month))
            => x.is_churn = 1

\* C5 witness: both labelers have labelled as churn a user who has a
\* cancellation dated within 30 days after the qualifying expiration and
\* carrying a later expire date.
C5_Witness ==
    /\ pc = "labelled"
    /\ \E u \in Users :
         /\ QualifyingBefore(u, cutoff_date) = QualifyingIn(u, expire_month)
         /\ QualifyingIn(u, expire_month) # NULL
         /\ \E r \in UserRows(u) :
              /\ r.is_cancel = 1
              /\ Exp(r) > QualifyingIn(u, expire_month)
              /\ Txn(r) > QualifyingIn(u, expire_month)
              /\ Txn(r) <= QualifyingIn(u, expire_month) + WindowDays
              /\ Txn(r) < cutoff_date
         /\ ChurnOf(labels_df, u) = {1}
         /\ ChurnOf(bt_labels, u) = {1}

\* The transactions file without the rows of u that expire before E.
WithoutEarlierExpirations(u, E) ==
    transactions \ { r \in UserRows(u) : Exp(r) < E }

\* C6: the label is derived from the latest expiration: last_expire_date is
\* the maximum membership_expire_date among the user's transactions in the
\* target, and the user's earlier expirations do not influence is_churn (the
\* labeler gives the same is_churn on the file without them).
C6_LatestExpirationDecides ==
    /\ \A x \in labels_df :
         /\ x.last_expire_date = QualifyingBefore(x.msno, cutoff_date)
         /\ ChurnOf(create_churn_labels(
                        WithoutEarlierExpirations(x.msno, x.last_expire_date),
                        train, cutoff_date, WindowDays), x.msno)
              = {x.is_churn}
    /\ \A x \in bt_labels :
         ChurnOf(labels_for_expire_month(
                     WithoutEarlierExpirations(
                         x.msno, QualifyingIn(x.msno, expire_month)),
                     expire_month, WindowDays), x.msno)
           = {x.is_churn}

\* C6 witness: a user with two expirations, the earlier one followed within
\* 30 days by a transaction that extends it, has been labelled from the
\* later one by both labelers.
C6_Witness ==
    /\ pc = "labelled"
    /\ \E u \in Users :
         /\ QualifyingBefore(u, cutoff_date) = QualifyingIn(u, expire_month)
         /\ \E r \in UserRows(u) :
              /\ ExpiresIn(r, expire_month)
              /\ Exp(r) < QualifyingIn(u, expire_month)
              /\ RenewedWithin(u, Exp(r), 1, WindowDays)
         /\ \E x \in labels_df :
              x.msno = u /\ x.last_expire_date = QualifyingIn(u, expire_month)
         /\ ChurnOf(labels_df, u) = {1}
         /\ ChurnOf(bt_labels, u) = {1}

\* The transaction_date of the qualifying expiration event of u: the latest
\* transaction_date among the rows of `rows` that expire on E.
QualifyingTxnDate(rows, E) ==
    MaxOrNull({ Txn(r) : r \in { q \in rows : Exp(q) = E } })

\* The renewal candidates of C7: not a cancellation, dated strictly later
\* than the qualifying expiration event, expiring later than E.
RenewalCandidates(u, rows, E) ==
    { r \in UserRows(u) :
        /\ Txn(r) > QualifyingTxnDate(rows, E)
        /\ r.is_cancel = 0
        /\ Exp(r) > E }

\* is_churn as the earliest candidate decides it.
EarliestCandidateChurn(u, rows, E) ==
    IF RenewalCandidates(u, rows, E) = {} THEN 1
    ELSE IF SetMin({ Txn(r) : r \in RenewalCandidates(u, rows, E) }) - E
              <= WindowDays
         THEN 0
    ELSE 1

C8_OneLabelRowPerExpiringUser ==
    pc = "labelled" =>
        /\ \A x \in bt_labels : x.msno \in Users
        /\ \A u \in Users :
             Cardinality({ x \in bt_labels : x.msno = u }) =
                IF \E r \in UserRows(u) : ExpiresIn(r, expire_month)
                THEN 1 ELSE 0

\* C8 witness: one user has transactions, none expiring in the month, and no
\* label row, while another user has a label row.
C8_Witness ==
    /\ pc = "labelled"
    /\ \E u, v \in Users :
         /\ UserRows(u) # {}
         /\ \A r \in UserRows(u) : ~ExpiresIn(r, expire_month)
         /\ ChurnOf(bt_labels, u) = {}
         /\ \E r \in UserRows(v) : ExpiresIn(r, expire_month)
         /\ ChurnOf(bt_labels, v) # {}

(***************************************************************************)
(* Claims C9, C10: the accuracy gate of the label command.                 *)
(***************************************************************************)
\* C9 (as claimed): the labels file is written only after validation has
\* passed; in a run in which validate_labels raises it is never written.
C9_LabelsFileOnlyAfterPassedValidation ==
    labels_file.exists => validation.outcome = "returned"

\* The rows of labels_df that carry both labels, and those that agree.
BothLabels == { x \in labels_df : x.is_churn \in {0, 1}
                                  /\ x.official_is_churn \in {0, 1} }
Agreeing == { x \in BothLabels : x.is_churn = x.official_is_churn }

\* C10: validate_labels raises exactly when accuracy < min_accuracy (an
\* accuracy equal to the threshold passes and matches and total are
\* returned), and it raises when no row has both labels.
C10_RaisesExactlyBelowThreshold ==
    validation.outcome # "none" =>
        /\ Cardinality(BothLabels) = 0 => validation.outcome = "no_comparable"
        /\ Cardinality(BothLabels) > 0 =>
             /\ validation.outcome = "below_min_accuracy"
                  <=> Cardinality(Agreeing) * 100
                        < min_accuracy * Cardinality(BothLabels)
             /\ validation.outcome # "below_min_accuracy" =>
                  validation = [outcome |-> "returned",
                                matches |-> Cardinality(Agreeing),
                                total |-> Cardinality(BothLabels)]

\* C10 witness: validate_labels has returned for an accuracy of exactly
\* min_accuracy (1 match out of 2 at --min-accuracy 0.5).
C10_Witness ==
    /\ validation.outcome = "returned"
    /\ validation.total = 2
    /\ validation.matches = 1
    /\ min_accuracy = 50

(***************************************************************************)
(* Claim C1: leak-safety of the feature row.                               *)
(***************************************************************************)
\* The inputs without the events of u dated on or after C.
TransactionsBefore(u, C) ==
    transactions \ { r \in UserRows(u) : Txn(r) >= C }
LogsBefore(u, C) ==
    user_logs \ { l \in user_logs : l.msno = u /\ StrpTime(l.date) >= C }

\* C1 (as claimed): every aggregate of the feature row built for cutoff C
\* (the row's label_date) is computed only from events dated strictly before
\* C: the row built for the same C from the inputs without the transactions
\* and usage logs dated on or after C is the same row.
C1_FeaturesUseOnlyEventsBeforeCutoff ==
    \A x \in joined :
        { y \in joined_rows(TransactionsBefore(x.msno, x.label_date),
                            LogsBefore(x.msno, x.label_date),
                            train, label_dates(transactions)) :
            y.msno = x.msno }
          = {x}

(***************************************************************************)
(* Claims C11 .. C14: validation, audit and exit status of the label       *)
(* command.                                                                *)
(***************************************************************************)
\* The official labels file without the rows whose is_churn cell is empty.
LabelledTrain == { t \in train : t.is_churn # NULL }

\* C11: accuracy is matches / total over the rows that carry both a generated
\* and a reference label: matches counts the agreeing ones, total all of
\* them; rows without a reference label change neither (validate_labels gives
\* the same result without them, and on the labels built from the reference
\* file without its unlabelled entities); a fully matching set has accuracy
\* 1.0 (matches = total) and an empty mismatch audit.
C11_AccuracyOverComparableOnly ==
    validation.outcome \in {"returned", "below_min_accuracy"} =>
        /\ validation.matches = Cardinality(Agreeing)
        /\ validation.total = Cardinality(BothLabels)
        /\ validate_labels(BothLabels, min_accuracy) = validation
        /\ validate_labels(
               create_churn_labels(transactions, LabelledTrain, cutoff_date,
                                   WindowDays),
               min_accuracy) = validation
        /\ Agreeing = BothLabels =>
              /\ validation.matches = validation.total
              /\ mismatch_audit(labels_df) = << >>

\* C11 witness: the command has finished with status 0 on labels that all
\* agree with the reference, one user having no reference label.
C11_Witness ==
    /\ pc = "exit"
    /\ exit_code = 0
    /\ validation.outcome = "returned"
    /\ validation.matches = validation.total
    /\ audit_df = << >>
    /\ \E x \in labels_df : x.official_is_churn = NULL
    /\ \E x \in labels_df : x.official_is_churn # NULL

\* The rows of labels_df whose two labels differ, and the positions of
\* audit_df.
Disagreeing == BothLabels \ Agreeing
AuditIdx == 1..Len(audit_df)

BoundaryDistance(rec) ==
    IF rec.days_to_next = NULL THEN 1000000
    ELSE IF rec.days_to_next >= WindowDays THEN rec.days_to_next - WindowDays
    ELSE WindowDays - rec.days_to_next

\* C13 (as claimed): in the audit all false_negative records come before all
\* false_positive records and, within a type, the records are in ascending
\* order of |days_to_renewal - 30|.
C13_AuditOrderedByBoundaryProximity ==
    pc = "audited" =>
        \A i, j \in AuditIdx :
            i < j =>
               /\ ~(/\ audit_df[i].mismatch_type = "false_positive"
                    /\ audit_df[j].mismatch_type = "false_negative")
               /\ audit_df[i].mismatch_type = audit_df[j].mismatch_type
                    => BoundaryDistance(audit_df[i])
                          <= BoundaryDistance(audit_df[j])

\* How a finished run of the label command ended.
RunSucceeded == pc = "exit" /\ validation.outcome = "returned"
GateFailed ==
    pc = "exit" /\ validation.outcome \in {"below_min_accuracy", "no_comparable"}
InputFailed == pc = "exit" /\ validation.outcome = "none"

\* C14 (as claimed): the label command exits with 0 on success and with a
\* non-zero code on failure, and a generic I/O failure (a missing input file)
\* exits with a code different from the one of an accuracy-gate failure.
C14_ExitCodesTellGateFromIOFailure ==
    /\ RunSucceeded => exit_code = 0
    /\ GateFailed => exit_code # 0
    /\ InputFailed => exit_code # 0 /\ exit_code # GateExitCode


\* The window at index k has been processed: its feature file is complete
\* under eval/ and its metric rows are in out_rows, one per model present.
WindowProcessed(k) ==
    /\ features_path(windows[k]) \in DOMAIN files
    /\ files[features_path(windows[k])].complete
    /\ \A name \in models_present :
         \E j \in 1..Len(out_rows) :
            /\ out_rows[j].window = arrow_tag(windows[k])
            /\ out_rows[j].model = name

\* C15: in a run over several windows, a window that fails is skipped and
\* every other window is still processed: when the run is over, each window
\* other than a failing one has its artifacts and its metric rows, and the
\* metrics table is written.
C15_FailingWindowIsSkipped ==
    (pc = "failed" /\ Len(windows) > 1) =>
        /\ \A k \in 1..Len(windows) : k # win_i => WindowProcessed(k)
        /\ out_file.exists


\* C16: a run in which no metric row was produced for any window ends in a
\* fatal error: it never writes the metrics table and returns with success
\* while out_rows is empty.
C16_NoMetricRowIsFatal ==
    (pc = "done" /\ Len(out_rows) = 0) =>
        (~out_file.exists /\ exit_code # 0)


\* C17: the per-window artifacts are written atomically: after a crash in the
\* middle of a write, no file under a final artifact path of eval/ is a
\* partially written one.
C17_ArtifactsWrittenAtomically ==
    pc = "killed" => \A p \in DOMAIN files : files[p].complete


\* The artifact paths of a window pair: its feature file and its score files.
ArtifactPaths(w) ==
    {features_path(w)} \cup
    { scores_path(w, ModelOrder[i]) : i \in 1..Len(ModelOrder) }

\* Months and pairs of months over which the paths are compared.
PathMonths ==
    {<<2016, 1>>, <<2016, 2>>, <<2016, 12>>, <<2017, 1>>, <<2017, 2>>,
     <<2017, 11>>}

PathPairs == (PathMonths \X PathMonths) \cup WindowPairs

\* Two different pairs share no artifact path.
PathsInjective ==
    \A w1, w2 \in PathPairs :
        w1 # w2 => ArtifactPaths(w1) \cap ArtifactPaths(w2) = {}

\* The paths of eval/ a step creates or overwrites.
WrittenPaths ==
    { p \in DOMAIN files' : p \notin DOMAIN files \/ files'[p] # files[p] }

\* C18: the artifact paths are a function of the (cutoff month, expire month)
\* pair only: two different pairs never share a feature or score file, and
\* every step of the run creates or overwrites only the feature and score
\* files of the window being processed, leaving those of every other pair
\* as they were.
C18_WindowWritesOnlyItsOwnArtifacts ==
    [][ /\ PathsInjective
        /\ DOMAIN files \subseteq DOMAIN files'
        /\ \A p \in WrittenPaths :
              /\ win_i \in 1..Len(windows)
              /\ p \in ArtifactPaths(current_window)
        /\ \A w \in WindowPairs :
              (win_i \in 1..Len(windows) /\ w # current_window) =>
                 \A p \in ArtifactPaths(w) \cap DOMAIN files :
                    files'[p] = files[p]
      ]_vars

\* Two different windows have been processed and the second one's score
\* file has just been completed next to the first one's artifacts.
C18_Witness ==
    /\ Len(windows) = 2
    /\ win_i = 2
    /\ windows[1] # windows[2]
    /\ pc = "scores"
    /\ \A k \in 1..2 :
          /\ features_path(windows[k]) \in DOMAIN files
          /\ scores_path(windows[k], "logreg") \in DOMAIN files
          /\ files[scores_path(windows[k], "logreg")].complete


\* The entities of the feature table and of the label table of the window.
FeatureEntities == { r.msno : r \in feats }

LabelEntities == { l.msno : l \in bt_labels }

\* The metric rows the evaluation of the current window appended.
LastMetricRows ==
    { j \in 1..Len(out_rows) :
        j > Len(out_rows) - Cardinality(models_present \cap
                              { ModelOrder[i] : i \in 1..Len(ModelOrder) }) }

\* The feature rows of a persisted feature file, without the window column.
PersistedFeatureRows(file) ==
    { [msno |-> r.msno, tx_count |-> r.tx_count] : r \in file.rows }

\* C19: for every window, the rows evaluated are exactly the entities that
\* are in both the feature table and the label table (the n of each metric
\* row of the window is the size of that intersection), and the feature file
\* persisted for the window holds every row of the built feature table,
\* unlabelled entities included.
C19_EvaluatedRowsAreTheIntersection ==
    /\ pc \in {"persist_features", "writing_persist", "scores",
               "writing_scores"} =>
          \A j \in LastMetricRows :
             /\ out_rows[j].window = arrow_tag(current_window)
             /\ out_rows[j].n =
                   Cardinality(FeatureEntities \cap LabelEntities)
    /\ pc \in {"labels", "evaluate", "persist_features", "scores",
               "writing_scores"} =>
          /\ features_path(current_window) \in DOMAIN files
          /\ files[features_path(current_window)].complete
          /\ PersistedFeatureRows(files[features_path(current_window)]) = feats
          /\ Cardinality(files[features_path(current_window)].rows)
                = Cardinality(feats)

\* A window has been evaluated and persisted whose feature table has a
\* labelled entity and an entity with no label.
C19_Witness ==
    /\ pc = "scores"
    /\ models_present # {}
    /\ FeatureEntities \cap LabelEntities # {}
    /\ FeatureEntities \ LabelEntities # {}
    /\ LastMetricRows # {}


\* Months over which month_bounds is compared with the calendar: every month
\* of leap years, of common years and of the century years 1900 and 2000.
BoundMonths == {1900, 2000, 2016, 2017, 2020, 2100} \X (1..12)

\* The last calendar day of the month ym.
LastDayOfMonth(ym) == MkDate(ym[1], ym[2], DaysInMonth(ym[1], ym[2]))

\* C20: month_bounds returns the first and the last day of the month, for
\* December and for February of leap and common years as for any other month,
\* and the backtest resolves the cutoff of a window to the last calendar day
\* of the window's cutoff month.
C20_CutoffIsLastDayOfMonth ==
    /\ \A ym \in BoundMonths :
          month_bounds(ym) = <<MkDate(ym[1], ym[2], 1), LastDayOfMonth(ym)>>
    /\ pc \in {"save_features", "writing_features", "labels", "evaluate",
               "persist_features", "writing_persist", "scores",
               "writing_scores"} =>
          cutoff_date = LastDayOfMonth(current_window[1])

\* The run has resolved the cutoff of a December window and is at a window
\* whose cutoff month is the February of a leap year: the cutoff is the 29th.
C20_Witness ==
    /\ pc = "save_features"
    /\ win_i = 2
    /\ windows[1][1] = <<2016, 12>>
    /\ windows[2][1] = <<2016, 2>>
    /\ cutoff_date = MkDate(2016, 2, 29)


\* How many days before the date C the usage log l is dated (0 on C itself,
\* negative after C).
DaysBefore(l, C) == C - MkDate(l.date \div 10000, (l.date \div 100) % 100,
                               l.date % 100)

\* The usage logs of user u dated 1 .. LogWindowDays days before C: those of
\* the half-open interval [C - LogWindowDays, C).
LogsInWindow(u, C) ==
    { l \in user_logs :
        l.msno = u /\ DaysBefore(l, C) >= 1 /\ DaysBefore(l, C) <= LogWindowDays }

C22_FeatureRowsMatchPopulation ==
    pc = "joined" =>
        /\ { x.msno : x \in joined } = { t.msno : t \in train }
        /\ \A x \in joined :
              /\ x.tx_count_total # NULL
              /\ x.cancels_total # NULL
              /\ x.logs_30d # NULL
              /\ x.secs_30d # NULL
              /\ x.unq_30d # NULL


\* The rows of the file whose two dates are calendar dates.
WellFormedRows ==
    { r \in transactions :
        IsValidYmd(r.transaction_date) /\ IsValidYmd(r.membership_expire_date) }

\* C23: a row whose transaction_date or membership_expire_date is null or is
\* not a valid YYYYMMDD date is dropped: create_churn_labels does not fail on
\* the file, and its labels are those of the well-formed rows alone.
C23_MalformedDatesAreDropped ==
    pc \in {"created", "raised"} =>
        /\ pc = "created"
        /\ labels_df = create_churn_labels(WellFormedRows, train, cutoff_date,
                                           WindowDays)


\* C24: the PSI of a sample against itself is 0: for every sample with at
\* least two distinct values, psi_numeric(X, X) and psi(X, X) return 0.
C24_PsiOfSampleAgainstItselfIsZero ==
    (pc \in {"psi_numeric", "psi"}
        /\ psi_a = psi_e /\ Cardinality(SampleRange(psi_a)) >= 2) =>
        psi_val = 0

\* psi_numeric has returned 0 for a sample with ties against itself.
C24_Witness ==
    /\ pc = "psi_numeric"
    /\ psi_a = psi_e
    /\ psi_a = <<3, 0, 3>>
    /\ psi_val = 0


\* C25: the drift monitor never compares a window against itself: no row of
\* the feature PSI report and no row of the score PSI report has its window
\* equal to its reference window, whatever the files and the reference.
C25_NoWindowComparedWithItself ==
    /\ \A r \in psi_rows : r.window # r.ref
    /\ \A r \in score_rows : r.window # r.reference

\* Both reports have rows; the reference of the feature report was chosen
\* with --ref and is not the first window.
C25_Witness ==
    /\ pc = "scores_written"
    /\ psi_rows # {}
    /\ score_rows # {}
    /\ psi_ref # ""
    /\ psi_ref # arrow_tag(first_window(psi_windows))


\* The cutoff is the first day of the month after the expire month.
CutoffFollowsExpireMonth ==
    /\ expire_month # NoMonth
    /\ cutoff_date = month_bounds(expire_month)[2] + 1

\* C26: the backtest labeler applies the same 30-day rule as labels.py: for
\* every user whose latest expiration before the cutoff lies in the expire
\* month M, labels_for_expire_month(M) and create_churn_labels(cutoff = first
\* day of the month after M, 30) give the same is_churn.
C26_BacktestLabelerAgreesWithLabels ==
    (pc = "labelled" /\ CutoffFollowsExpireMonth) =>
        \A l \in labels_df : \A b \in bt_labels :
            (/\ l.msno = b.msno
             /\ l.last_expire_date >= month_bounds(expire_month)[1]
             /\ l.last_expire_date <= month_bounds(expire_month)[2])
                => l.is_churn = b.is_churn


\* The index sets train and val are disjoint and every row of train is
\* strictly earlier than every row of val.
TrainBeforeVal(split) ==
    /\ split[1] \cap split[2] = {}
    /\ \A i \in split[1] : \A j \in split[2] : cv_times[i] < cv_times[j]

\* C27: the temporal splits never put future rows into training: for
\* TemporalSplit.split and for every fold yielded by ChurnTemporalCV.split the
\* two index sets are disjoint and every training row is strictly earlier
\* than every validation row; with gap_days = 0 and no val_end, TemporalSplit
\* puts every row in exactly one of the two sets.
C27_TrainingRowsPrecedeValidationRows ==
    /\ pc = "split" =>
          /\ TrainBeforeVal(ts_result)
          /\ (ts_params.gap_days = 0 /\ ts_params.val_end = NULL) =>
                ts_result[1] \cup ts_result[2] = 1..Len(cv_times)
    /\ pc \in {"folds", "scored"} =>
          \A k \in 1..Len(cv_folds) : TrainBeforeVal(cv_folds[k])

\* ChurnTemporalCV.split has yielded two folds over three months, the second
\* with two training rows.
C27_Witness ==
    /\ pc = "folds"
    /\ Len(cv_folds) = 2
    /\ Cardinality(cv_folds[2][1]) = 2
    /\ cv_folds[2][2] # {}


\* C30: the description recorded for each evaluated fold names the month
\* whose rows form the fold's validation set, also when ChurnTemporalCV.split
\* has skipped a month; the number of evaluated folds is at most
\* get_n_splits().
C30_FoldDescriptionNamesValidationMonth ==
    pc = "scored" =>
        /\ Len(fold_details) <= get_n_splits(cv_months)
        /\ \A k \in 1..Len(fold_details) :
              \A j \in cv_folds[k][2] :
                 /\ cv_times[j] >=
                       month_range(fold_details[k].description.val)[1]
                 /\ cv_times[j] <
                       month_range(fold_details[k].description.val)[2]

\* The columns that hold a label value after the merge.
LabelColumns == {"is_churn", "is_churn_label"}

\* C28: in evaluate_window, for every feature table, also one that carries
\* an is_churn column of the train placeholder, the target y of each merged
\* row is the label labels_for_expire_month derived for the window's expiry
\* month, and no column holding a label value (is_churn or its suffixed
\* copy) is among the input columns X.
C28_TargetIsWindowLabelAndNoLabelInInput ==
    pc = "evaluated" =>
        /\ eval_y = { <<l.msno, l.is_churn>> :
                      l \in { q \in bt_labels :
                                \E r \in eval_feats.rows : r["msno"] = q.msno } }
        /\ eval_x_cols \cap LabelColumns = {}

\* The phases of run_full_pipeline, in the order the claim gives them.
PhaseOrder ==
    <<"historical_features", "feature_generation", "hyperparameter_tuning",
      "stacked_ensemble", "final_training">>

PhaseRank(phase) ==
    CHOOSE k \in 1..Len(PhaseOrder) : PhaseOrder[k] = phase

\* The commands run so far, and the completed steps, follow the fixed order.
PhasesInOrder ==
    /\ \A i, j \in 1..Len(pl_log) :
          i < j => PhaseRank(pl_log[i].phase) < PhaseRank(pl_log[j].phase)
    /\ \A i, j \in 1..Len(completed_steps) :
          i < j => PhaseRank(completed_steps[i]) < PhaseRank(completed_steps[j])

\* The run passes the prerequisite check and, under --skip-features, the
\* feature-file check.
PassesChecks ==
    /\ pl_env.prerequisites
    /\ pl_args.skip_features => pl_env.feature_files

FinalTrainingAttempted ==
    \E i \in 1..Len(pl_log) : pl_log[i].phase = "final_training"

FinalTrainingFailed ==
    \E i \in 1..Len(pl_log) :
        pl_log[i].phase = "final_training" /\ pl_log[i].outcome # "ok"

\* A run that has ended without attempting final training ended at one of
\* the two checks, before any command was run.
StopsOnlyAtChecks ==
    (pl_exit # NULL /\ ~FinalTrainingAttempted) =>
        (~PassesChecks /\ pl_log = << >>)

\* The exit status is non-zero exactly when a check failed or final training
\* failed.
ExitStatusIsExact ==
    pl_exit # NULL =>
        ((pl_exit # 0) <=> (~PassesChecks \/ FinalTrainingFailed))

\* Step s was skipped with its artifacts present.
SkippedWithArtifacts(s) ==
    \/ s = "feature_generation" /\ pl_args.skip_features
       /\ pl_env.feature_files
    \/ s = "hyperparameter_tuning" /\ pl_args.skip_tuning
       /\ pl_env.best_hyperparameters

CompletedStepsAreEarned ==
    \A k \in 1..Len(completed_steps) :
        \/ \E i \in 1..Len(pl_log) :
              pl_log[i].phase = completed_steps[k] /\ pl_log[i].outcome = "ok"
        \/ SkippedWithArtifacts(completed_steps[k])

\* C29: in run_full_pipeline.main the phases run in the fixed order
\* historical features, feature regeneration, hyperparameter tuning,
\* stacking, final training; a failure or timeout of a phase before final
\* training never stops the run, so final training is eventually attempted
\* in every run that passes the prerequisite check (and, under
\* --skip-features, the feature-file check); the process exits non-zero
\* exactly when a prerequisite or required feature file is missing or final
\* training fails; and a phase is in completed_steps only if its command
\* returned 0 or it was skipped with its artifacts present.
C29_PipelineReachesFinalTraining ==
    /\ [](PhasesInOrder /\ StopsOnlyAtChecks /\ ExitStatusIsExact
          /\ CompletedStepsAreEarned)
    /\ (PassesChecks ~> FinalTrainingAttempted)

\* A run where a phase before final training failed or timed out, final
\* training was attempted all the same, and the run has ended.
C29_Witness ==
    /\ pc = "exited"
    /\ FinalTrainingAttempted
    /\ \E i \in 1..Len(pl_log) :
          pl_log[i].phase # "final_training"
          /\ pl_log[i].outcome \in {"failed", "timeout"}
    /\ Len(completed_steps) > 0

====
